---------------------------- MODULE Spec2Model ----------------------------
(***************************************************************************)
(* Post service: the five use-cases of PostService running as concurrent   *)
(* requests over a relational store with transactions (UnitOfWork), the    *)
(* remote UserClient, and the inbound error mapping of the gRPC handlers.  *)
(*                                                                         *)
(* The store is modelled as four tables (posts, post_media, tags,          *)
(* posts_tags).  A transaction holds the rows it inserted and the rows it  *)
(* deleted; a statement run on a transaction handle sees the committed     *)
(* rows minus its deletions plus its insertions, a statement run on the    *)
(* pool sees the committed rows only.  Commit applies the delta, Rollback  *)
(* discards it.  A statement that fails inside a transaction aborts the    *)
(* transaction: committing an aborted transaction rolls it back and        *)
(* reports "commit unexpectedly resulted in rollback".                     *)
(***************************************************************************)
EXTENDS Integers, Sequences, FiniteSets, Bags, TLC

(* ------------------------------ bounds -------------------------------- *)

\* number of requests started in one behaviour
MaxReqs == 3

\* number of failures of the environment (database errors, failed user
\* lookups) in one behaviour
MaxFaults == 1

\* calls of the cache decorator in a behaviour
MaxCalls == 2

\* bound on the direct repository calls of a behaviour
MaxOps == 4

\* bound on the posts a repository holds when List is called directly
MaxPosts == 4

\* bound on the media a repository holds when it is called directly
MaxMedia == 3

\* request tasks: one runs the transactional use-cases, one the reads, so a
\* read can fall between any two steps of an open transaction
Writers == {"w1"}
Readers == {"r1"}
Procs == Writers \cup Readers
Users == {1, 2}
Pool == "pool"     \* handle of the non-transactional repositories
NULL == "null"     \* nil pointer / absent value

MinMediaPosition == 1
MaxMediaPosition == 9

Media1 == [url |-> "u1", type |-> "image", position |-> 2]
Media2 == [url |-> "u2", type |-> "video", position |-> 1]

\* tags and media items of the CreatePost requests
Payloads == {[tags |-> <<>>, media |-> <<>>],
             [tags |-> <<"a", "b">>, media |-> <<Media1, Media2>>],
             [tags |-> <<"b", "b">>, media |-> <<>>]}

\* tags and media items of the UpdatePost requests
UpdPayloads == {[tags |-> <<>>, media |-> <<>>],
                [tags |-> <<"a">>, media |-> <<Media2>>]}

\* the users that write posts; any user may call UpdatePost and DeletePost
Authors == {1}

CreateTitles == {"t1"}
\* title and content of the UpdatePost requests
UpdFields == {[title |-> NULL, content |-> NULL],
              [title |-> "", content |-> ""],
              [title |-> "t2", content |-> NULL]}

(* --------------------------- error kinds ------------------------------ *)

OK == "nil"
ErrPostNotFound == "PostNotFound"
ErrPostValidation == "PostValidation"
ErrInvalidInput == "InvalidInput"
ErrForbidden == "Forbidden"
ErrExternalServiceError == "ExternalServiceError"
ErrUserNotFound == "UserNotFound"
ErrDatabaseQuery == "DatabaseQuery"
ErrMediaAttachFailed == "MediaAttachFailed"
ErrMediaDetachFailed == "MediaDetachFailed"
ErrMediaQueryFailed == "MediaQueryFailed"
ErrMediaReorderFailed == "MediaReorderFailed"
ErrMediaNotFound == "MediaNotFound"
ErrTagQueryFailed == "TagQueryFailed"
ErrTagCreateFailed == "TagCreateFailed"
ErrTagDeleteFailed == "TagDeleteFailed"
ErrTagVerifyPostFailed == "TagVerifyPostFailed"
ErrTagNotFound == "TagNotFound"
ErrTagPost == "TagPost"
ErrUnknownTagError == "UnknownTagError"
ErrInternalServiceError == "InternalServiceError"
ErrOpaque == "opaque"   \* an error outside the taxonomy (wrapped driver error)

ErrorKinds == {ErrPostNotFound, ErrPostValidation, ErrInvalidInput, ErrForbidden,
               ErrExternalServiceError, ErrUserNotFound, ErrDatabaseQuery,
               ErrMediaAttachFailed, ErrMediaDetachFailed, ErrMediaQueryFailed,
               ErrMediaNotFound, ErrTagQueryFailed, ErrTagCreateFailed,
               ErrTagDeleteFailed, ErrTagVerifyPostFailed, ErrTagNotFound,
               ErrTagPost, ErrUnknownTagError, ErrInternalServiceError, ErrOpaque}

(* ------------------------------ state --------------------------------- *)

VARIABLES
    db,        \* committed tables: posts, media, tags, links
    seq,       \* identity sequences of posts, post_media, tags
    now,       \* server clock
    tx,        \* tx[p]: the transaction of request p
    pc,        \* pc[p]: control point of request p
    call,      \* call[p]: operation and arguments of request p
    loc,       \* loc[p]: local variables of the use-case
    res,       \* res[p]: returned (PostDetailed, error)
    gor,       \* gor[p]: the user-lookup goroutine of the concurrent CreatePost
    hist,      \* hist[p]: what the call did (Begin/Commit/Rollback counts, pre-state)
    created,   \* inputs of the successfully created posts, by post id
    touched,   \* ids of posts changed by a committed UpdatePost or DeletePost
    durable,   \* every row that a successful Commit has made durable
    deleted,   \* (caller, id) of the DeletePost calls that returned success
    nreq,      \* requests started so far
    nfault,    \* injected failures so far (database errors, failed user lookups)
    rpc,       \* the inbound handler under test: method, service error, status
    pcache,    \* PostCache: the JSON value stored under post:<id>, by id
    ucache,    \* UserCache: the JSON value stored under user:<id>, by id
    dec,       \* dec[p]: the cache decorator's call of request p
    mem        \* the maps of the in-memory tag and media repositories

\* the caches, the decorator's calls and the in-memory repositories
cvars == <<pcache, ucache, dec, mem>>

vars == <<db, seq, now, tx, pc, call, loc, res, gor, hist, created, touched,
          durable, deleted, nreq, nfault, rpc, pcache, ucache, dec, mem>>

(* --------------------------- the store -------------------------------- *)

NoRows == [posts |-> {}, media |-> {}, tags |-> {}, links |-> {}]

NoTx == [open |-> FALSE, aborted |-> FALSE, ins |-> NoRows, del |-> NoRows]

\* rows a statement on handle h sees
View(h) ==
    IF h = Pool THEN db
    ELSE [t \in DOMAIN db |-> (db[t] \ tx[h].del[t]) \cup tx[h].ins[t]]

\* variant of LockedBy: no statement waits for the rows of another transaction
LockedByNone(p, t) == {}

\* rows of table t that another open transaction has deleted or updated
LockedBy(p, t) ==
    UNION {tx[q].del[t] : q \in {r \in Procs \ {p} : tx[r].open}}

\* ids of posts that rows inserted by another open transaction refer to
PinnedBy(p) ==
    UNION {{m.post : m \in tx[q].ins.media} \cup {l.post : l \in tx[q].ins.links}
           : q \in {r \in Procs \ {p} : tx[r].open}}

\* tag names inserted by another open transaction (unique index on tags.name)
NamesHeldBy(p) ==
    UNION {{t.name : t \in tx[q].ins.tags} : q \in {r \in Procs \ {p} : tx[r].open}}

\* the effect of a statement on handle h that inserts rows ins and deletes
\* rows del; failed tells that the statement ended in an error, which leaves
\* the transaction aborted
Write(h, ins, del, failed) ==
    IF h = Pool
    THEN /\ db' = [t \in DOMAIN db |-> (db[t] \ del[t]) \cup ins[t]]
         /\ tx' = tx
    ELSE /\ db' = db
         /\ tx' = [tx EXCEPT ![h].ins = [t \in DOMAIN db |-> (@[t] \ del[t]) \cup ins[t]],
                             ![h].del = [t \in DOMAIN db |-> @[t] \cup (del[t] \cap db[t])],
                             ![h].aborted = @ \/ failed]

\* a statement can run on handle h: the pool, or a transaction not yet aborted
Usable(h) == IF h = Pool THEN TRUE ELSE tx[h].open /\ ~tx[h].aborted

Rows(posts, media, tags, links) ==
    [posts |-> posts, media |-> media, tags |-> tags, links |-> links]

(* ------------------------- sequences helpers -------------------------- *)

Range(s) == {s[i] : i \in DOMAIN s}

RECURSIVE SelectNotIn(_, _)
\* the names of s that are not in set S, in order, duplicates kept
SelectNotIn(s, S) ==
    IF s = <<>> THEN <<>>
    ELSE IF Head(s) \in S THEN SelectNotIn(Tail(s), S)
         ELSE <<Head(s)>> \o SelectNotIn(Tail(s), S)

RECURSIVE SetToSeqBy(_, _)
\* the elements of S as a sequence ordered by the key k (an injective operator value)
SetToSeqBy(S, k) ==
    IF S = {} THEN <<>>
    ELSE LET m == CHOOSE x \in S : \A y \in S : k[x] <= k[y]
         IN  <<m>> \o SetToSeqBy(S \ {m}, k)

(* --------------------------- repositories ----------------------------- *)

PostIds(v) == {r.id : r \in v.posts}

\* no row / nil *model.Post
NoPost == [id |-> 0, author |-> 0, title |-> NULL, content |-> NULL,
           created |-> 0, updated |-> 0]

\* nil *model.User
NoUser == [id |-> 0]

\* PostRepository.GetByID: the row, or NoPost for pgx.ErrNoRows
GetByID(v, id) ==
    IF id \in PostIds(v) THEN CHOOSE r \in v.posts : r.id = id ELSE NoPost

\* PostRepository.Create: INSERT ... RETURNING
NewPostRow(id, author, title, content, t) ==
    [id |-> id, author |-> author, title |-> title, content |-> content,
     created |-> t, updated |-> t]

\* variant of UpdatedPostRow: the in-memory PostRepository.Update, which
\* stores every non-nil field, the empty string included
UpdatedPostRowMemory(row, title, content, t) ==
    [row EXCEPT !.title = IF title # NULL THEN title ELSE @,
                !.content = IF content # NULL THEN content ELSE @,
                !.updated = t]

\* PostRepository.Update: title and content are set only when non-nil and
\* non-empty, updated_at always
UpdatedPostRow(row, title, content, t) ==
    [row EXCEPT !.title = IF title # NULL /\ title # "" THEN title ELSE @,
                !.content = IF content # NULL /\ content # "" THEN content ELSE @,
                !.updated = t]

\* CHECK constraints of post_media
MediaRowOK(m) ==
    /\ m.position >= MinMediaPosition /\ m.position <= MaxMediaPosition
    /\ m.type \in {"image", "video"}

\* variant of AttachRows: the position of a row is its place in the batch
AttachRowsByIndex(postID, media, first) ==
    {[id |-> first + i - 1, post |-> postID, url |-> media[i].url,
      type |-> media[i].type, position |-> i] : i \in DOMAIN media}

\* MediaRepository.Attach: the rows of the batch, ids taken from the sequence
AttachRows(postID, media, first) ==
    {[id |-> first + i - 1, post |-> postID, url |-> media[i].url,
      type |-> media[i].type, position |-> media[i].position] : i \in DOMAIN media}

\* MediaRepository.GetByPost: ... WHERE post_id = @postID ORDER BY position
\* (rows with equal positions are returned in id order)
GetByPost(v, postID) ==
    LET S == {m \in v.media : m.post = postID}
        k == [m \in S |-> m.position * 1000 + m.id]
    IN  SetToSeqBy(S, k)

\* TagRepository.FindByNames: SELECT id, name FROM tags WHERE name = ANY(@names)
FindByNames(v, names) ==
    LET S == {t \in v.tags : t.name \in Range(names)}
    IN  SetToSeqBy(S, [t \in S |-> t.id])

\* TagRepository.FindByPost: tags JOIN posts_tags WHERE post_id = @post_id
FindByPost(v, postID) ==
    LET S == {t \in v.tags : [post |-> postID, tag |-> t.id] \in v.links}
    IN  SetToSeqBy(S, [t \in S |-> t.id])

TagIdOf(v, name) ==
    IF \E t \in v.tags : t.name = name
    THEN (CHOOSE t \in v.tags : t.name = name).id ELSE 0

RECURSIVE InsertLinks(_, _, _, _)
\* the batch of INSERT INTO posts_tags of TagPost and ReplacePostTags, run on
\* the links L: the result code of the first failing insert and the links
\* inserted before it.  "23502": no tag of that name (NULL tag_id), "23503":
\* no such post, "23505": the link exists already.
InsertLinks(v, L, postID, names) ==
    IF names = <<>> THEN [code |-> OK, links |-> {}]
    ELSE LET tid == TagIdOf(v, Head(names))
             l   == [post |-> postID, tag |-> tid]
         IN  IF tid = 0 THEN [code |-> "23502", links |-> {}]
             ELSE IF postID \notin PostIds(v) THEN [code |-> "23503", links |-> {}]
             ELSE IF l \in L THEN [code |-> "23505", links |-> {}]
             ELSE LET r == InsertLinks(v, L \cup {l}, postID, Tail(names))
                  IN  [code |-> r.code, links |-> {l} \cup r.links]

\* TagRepository.TagPost: a duplicate link (23505) is skipped, and so are the
\* results after it, which repeat the batch's first error
TagPostErr(code) ==
    CASE code = OK -> OK
      [] code = "23505" -> OK
      [] code = "23503" -> ErrTagNotFound
      [] OTHER -> ErrTagPost

\* TagRepository.ReplacePostTags: the error of the insert batch
ReplacePostTagsErr(code) ==
    CASE code = OK -> OK
      [] code = "23503" -> ErrTagNotFound
      [] OTHER -> ErrDatabaseQuery

(* ------------------------- requests and locals ------------------------ *)

NoCall == [op |-> "none", user |-> 0, id |-> 0, title |-> NULL, content |-> NULL,
           tags |-> <<>>, media |-> <<>>]

NoLoc == [post |-> NoPost, author |-> NoUser, media |-> <<>>, tags |-> <<>>,
          names |-> <<>>, committed |-> FALSE]

PostDetailed(post, author, media, tags) ==
    [post |-> post, author |-> author, media |-> media, tags |-> tags]

\* a nil *model.PostDetailed
NoOut == PostDetailed(NoPost, NoUser, <<>>, <<>>)

NoRes == [err |-> OK, out |-> NoOut]

NoHist == [begun |-> FALSE, commits |-> 0, rollbacks |-> 0, pre |-> NoRows,
           interf |-> FALSE, faulted |-> FALSE, lookup |-> "none"]

\* no RPC in progress
NoRpc == [method |-> "none", id |-> 0, stage |-> "idle", err |-> OK,
          geterr |-> OK, status |-> "none"]

\* variant of TxRepository: the use-case takes the repositories of the service
\* (the pool) instead of those of the transaction
PoolRepository(p) == Pool

\* tx.PostRepository(), tx.MediaRepository(), tx.TagRepository(): repositories
\* bound to the transaction of the request
TxRepository(p) == p

\* the decorator has no call for the request
NoDec == [op |-> "none", stage |-> "idle", user |-> 0, id |-> 0,
          inner |-> FALSE, hit |-> FALSE, ret |-> NoRes,
          writes |-> 0, deletes |-> 0, cachefail |-> FALSE, kept |-> FALSE,
          removed |-> FALSE,
          list |-> <<>>, orig |-> <<>>, total |-> 0, todo |-> {},
          hits |-> <<>>, sets |-> <<>>,
          prev |-> [id |-> 0, ret |-> NoRes, inner |-> FALSE, hit |-> FALSE,
                    cachefail |-> FALSE, kept |-> FALSE]]

\* NewTagRepository, NewMediaRepository, NewPostRepository (memory): empty
\* maps, nextID 1
NoMem == [postExists |-> {}, tags |-> {}, links |-> {}, tagNextID |-> 1,
          mediaPostExists |-> {}, mediaByID |-> <<>>, mediaByPostID |-> <<>>,
          mediaNextID |-> 1, posts |-> {}, postNextID |-> 1]

Init ==
    /\ db = NoRows
    /\ seq = [post |-> 1, media |-> 1, tag |-> 1]
    /\ now = 1
    /\ tx = [p \in Procs |-> NoTx]
    /\ pc = [p \in Procs |-> "idle"]
    /\ call = [p \in Procs |-> NoCall]
    /\ loc = [p \in Procs |-> NoLoc]
    /\ res = [p \in Procs |-> NoRes]
    /\ gor = [p \in Procs |-> "none"]
    /\ hist = [p \in Procs |-> NoHist]
    /\ created = <<>>
    /\ touched = {}
    /\ durable = NoRows
    /\ deleted = {}
    /\ nreq = 0
    /\ nfault = 0
    /\ rpc = NoRpc
    /\ pcache = <<>>
    /\ ucache = <<>>
    /\ dec = [p \in Procs |-> NoDec]
    /\ mem = NoMem

\* the request ends: the use-case returns (out, err)
Return(p, out, err) ==
    /\ res' = [res EXCEPT ![p] = [err |-> err, out |-> out]]
    /\ pc' = [pc EXCEPT ![p] = "done"]

\* variant of ReturnErr: no deferred function runs after the return
ReturnErrNoDefer(p, err) ==
    /\ res' = [res EXCEPT ![p] = [err |-> err, out |-> NoOut]]
    /\ pc' = [pc EXCEPT ![p] = "done"]

\* the use-case returns err; the deferred function then rolls back
ReturnErr(p, err) ==
    /\ res' = [res EXCEPT ![p] = [err |-> err, out |-> NoOut]]
    /\ pc' = [pc EXCEPT ![p] = "rollback"]

Goto(p, l) == pc' = [pc EXCEPT ![p] = l]

\* the environment fails once more
Fault ==
    /\ nfault < MaxFaults
    /\ nfault' = nfault + 1

(* ------------------------------ requests ------------------------------ *)

\* the task of p is free: it has no request, or has returned its response
CanStart(p) == pc[p] \in {"idle", "done"} /\ nreq < MaxReqs

\* a CreatePost request arrives
StartCreate(p) ==
    /\ CanStart(p) /\ p \in Writers
    /\ \E u \in Authors, t \in CreateTitles, pl \in Payloads :
          call' = [call EXCEPT ![p] = [op |-> "create", user |-> u, id |-> 0,
                     title |-> t, content |-> NULL, tags |-> pl.tags,
                     media |-> pl.media]]
    /\ Goto(p, "c_user")
    /\ nreq' = nreq + 1
    /\ loc' = [loc EXCEPT ![p] = NoLoc]
    /\ res' = [res EXCEPT ![p] = NoRes]
    /\ hist' = [hist EXCEPT ![p] = [NoHist EXCEPT !.pre = db]]
    /\ UNCHANGED <<db, seq, now, tx, gor, created, touched, durable, deleted, nfault, rpc>>
    /\ UNCHANGED cvars

\* ids a request can name: the ids handed out so far and one unknown id
KnownIds == 1..seq.post

\* an UpdatePost request arrives
StartUpdate(p) ==
    /\ CanStart(p) /\ p \in Writers
    /\ \E u \in Users, id \in KnownIds, f \in UpdFields, pl \in UpdPayloads :
          call' = [call EXCEPT ![p] = [op |-> "update", user |-> u, id |-> id,
                     title |-> f.title, content |-> f.content, tags |-> pl.tags,
                     media |-> pl.media]]
    /\ Goto(p, "u_begin")
    /\ nreq' = nreq + 1
    /\ loc' = [loc EXCEPT ![p] = NoLoc]
    /\ res' = [res EXCEPT ![p] = NoRes]
    /\ hist' = [hist EXCEPT ![p] = [NoHist EXCEPT !.pre = db]]
    /\ UNCHANGED <<db, seq, now, tx, gor, created, touched, durable, deleted, nfault, rpc>>
    /\ UNCHANGED cvars

\* a DeletePost request arrives
StartDelete(p) ==
    /\ CanStart(p) /\ p \in Writers
    /\ \E u \in Users, id \in KnownIds :
          call' = [call EXCEPT ![p] = [NoCall EXCEPT !.op = "delete", !.user = u,
                                                    !.id = id]]
    /\ Goto(p, "d_begin")
    /\ nreq' = nreq + 1
    /\ loc' = [loc EXCEPT ![p] = NoLoc]
    /\ res' = [res EXCEPT ![p] = NoRes]
    /\ hist' = [hist EXCEPT ![p] = [NoHist EXCEPT !.pre = db]]
    /\ UNCHANGED <<db, seq, now, tx, gor, created, touched, durable, deleted, nfault, rpc>>
    /\ UNCHANGED cvars

\* a GetPostByID request arrives
StartGet(p) ==
    /\ CanStart(p) /\ p \in Readers
    /\ \E id \in KnownIds :
          call' = [call EXCEPT ![p] = [NoCall EXCEPT !.op = "get", !.id = id]]
    /\ Goto(p, "g_post")
    /\ nreq' = nreq + 1
    /\ loc' = [loc EXCEPT ![p] = NoLoc]
    /\ res' = [res EXCEPT ![p] = NoRes]
    /\ hist' = [hist EXCEPT ![p] = [NoHist EXCEPT !.pre = db]]
    /\ UNCHANGED <<db, seq, now, tx, gor, created, touched, durable, deleted, nfault, rpc>>
    /\ UNCHANGED cvars

(* ----------------------- UnitOfWork / Transaction --------------------- *)

FirstStep(op) ==
    CASE op = "create" -> "c_create"
      [] op = "createG" -> "cg_create"
      [] op = "update" -> "u_get"
      [] op = "delete" -> "d_get"

\* UnitOfWork.Begin succeeds
Begin(p) ==
    /\ pc[p] \in {"c_begin", "cg_begin", "u_begin", "d_begin"}
    /\ tx' = [tx EXCEPT ![p] = [NoTx EXCEPT !.open = TRUE]]
    /\ hist' = [hist EXCEPT ![p].begun = TRUE]
    /\ Goto(p, FirstStep(call[p].op))
    /\ UNCHANGED <<db, seq, now, call, loc, res, gor, created, touched, durable,
                   deleted, nreq, nfault, rpc>>
    /\ UNCHANGED cvars

\* UnitOfWork.Begin returns an error: the use-case returns DatabaseQuery
BeginFails(p) ==
    /\ pc[p] \in {"c_begin", "cg_begin", "u_begin", "d_begin"}
    /\ Fault
    /\ Return(p, NoOut, ErrDatabaseQuery)
    /\ hist' = [hist EXCEPT ![p].faulted = TRUE]
    /\ UNCHANGED <<db, seq, now, tx, call, loc, gor, created, touched, durable,
                   deleted, nreq, rpc>>
    /\ UNCHANGED cvars

\* the history after request p has invoked Commit, which left the committed
\* rows as newdb
AfterCommit(p, newdb, fault) ==
    [q \in Procs |->
        IF q = p THEN [hist[q] EXCEPT !.commits = @ + 1, !.faulted = @ \/ fault]
        ELSE IF pc[q] # "idle" /\ newdb # db THEN [hist[q] EXCEPT !.interf = TRUE]
        ELSE hist[q]]

\* Transaction.Commit succeeds at the end of CreatePost, UpdatePost or DeletePost
Commit(p) ==
    /\ pc[p] \in {"c_commit", "u_commit", "d_commit"}
    /\ tx[p].open /\ ~tx[p].aborted
    /\ db' = View(p)
    /\ tx' = [tx EXCEPT ![p] = NoTx]
    /\ hist' = AfterCommit(p, View(p), FALSE)
    /\ loc' = [loc EXCEPT ![p].committed = TRUE]
    /\ durable' = [t \in DOMAIN db |-> durable[t] \cup View(p)[t]]
    /\ IF call[p].op = "create"
       THEN /\ Return(p, PostDetailed(loc[p].post, loc[p].author, loc[p].media,
                                      loc[p].tags), OK)
            /\ created' = (loc[p].post.id :> [media |-> call[p].media,
                                              tags |-> call[p].tags]) @@ created
            /\ UNCHANGED <<touched, deleted>>
       ELSE /\ Return(p, NoOut, OK)
            /\ touched' = touched \cup {call[p].id}
            /\ deleted' = IF call[p].op = "delete"
                          THEN deleted \cup {<<call[p].user, call[p].id>>}
                          ELSE deleted
            /\ UNCHANGED created
    /\ UNCHANGED <<seq, now, call, gor, nreq, nfault, rpc>>
    /\ UNCHANGED cvars

\* variant of CommitFails: the use-case returns the error of Commit and the
\* deferred function does not run
CommitFailsNoRollback(p) ==
    /\ pc[p] \in {"c_commit", "cg_commit", "u_commit", "d_commit"}
    /\ tx[p].open
    /\ IF tx[p].aborted THEN UNCHANGED nfault ELSE Fault
    /\ tx' = [tx EXCEPT ![p] = NoTx]
    /\ hist' = AfterCommit(p, db, ~tx[p].aborted)
    /\ ReturnErrNoDefer(p, ErrDatabaseQuery)
    /\ UNCHANGED <<db, seq, now, call, loc, gor, created, touched, durable,
                   deleted, nreq, rpc>>
    /\ UNCHANGED cvars

\* Transaction.Commit returns an error (the transaction was aborted and is
\* rolled back, or the commit itself failed): DatabaseQuery, txCommitted
\* stays false
CommitFails(p) ==
    /\ pc[p] \in {"c_commit", "cg_commit", "u_commit", "d_commit"}
    /\ tx[p].open
    /\ IF tx[p].aborted THEN UNCHANGED nfault ELSE Fault
    /\ tx' = [tx EXCEPT ![p] = NoTx]
    /\ hist' = AfterCommit(p, db, ~tx[p].aborted)
    /\ ReturnErr(p, ErrDatabaseQuery)
    /\ UNCHANGED <<db, seq, now, call, loc, gor, created, touched, durable,
                   deleted, nreq, rpc>>
    /\ UNCHANGED cvars

\* variant of Rollback: the transaction's statements are kept
RollbackApplies(p) ==
    /\ pc[p] = "rollback"
    /\ ~loc[p].committed
    /\ db' = IF tx[p].open THEN View(p) ELSE db
    /\ tx' = [tx EXCEPT ![p] = NoTx]
    /\ hist' = [hist EXCEPT ![p].rollbacks = @ + 1]
    /\ Goto(p, "done")
    /\ UNCHANGED <<seq, now, call, loc, res, gor, created, touched, durable,
                   deleted, nreq, nfault, rpc>>
    /\ UNCHANGED cvars

\* the deferred function: Rollback unless txCommitted
Rollback(p) ==
    /\ pc[p] = "rollback"
    /\ ~loc[p].committed
    /\ tx' = [tx EXCEPT ![p] = NoTx]
    /\ hist' = [hist EXCEPT ![p].rollbacks = @ + 1]
    /\ Goto(p, "done")
    /\ UNCHANGED <<db, seq, now, call, loc, res, gor, created, touched, durable,
                   deleted, nreq, nfault, rpc>>
    /\ UNCHANGED cvars

\* the error a use-case returns when the repository call at a control point
\* returns a database error
ErrorsAt(l) ==
    CASE l = "c_create" -> {ErrDatabaseQuery}
      [] l = "c_attach" -> {ErrMediaAttachFailed}
      [] l = "c_getmedia" -> {ErrMediaQueryFailed}
      [] l = "c_find" -> {ErrTagQueryFailed}
      [] l = "c_tagcreate" -> {ErrUnknownTagError}
      [] l = "c_tagpost" -> {ErrTagVerifyPostFailed, ErrTagPost}
      [] l = "cg_create" -> {ErrDatabaseQuery}
      [] l = "cg_attach" -> {ErrMediaAttachFailed}
      [] l = "cg_getmedia" -> {ErrMediaQueryFailed}
      [] l = "cg_tagpost" -> {ErrTagPost}
      [] l = "u_get" -> {ErrDatabaseQuery}
      [] l = "u_update" -> {ErrDatabaseQuery}
      [] l = "u_getmedia" -> {ErrDatabaseQuery}
      [] l = "u_detach" -> {ErrMediaAttachFailed}
      [] l = "u_attach" -> {ErrMediaAttachFailed}
      [] l = "u_tagcreate" -> {ErrUnknownTagError}
      [] l = "u_replace" -> {ErrDatabaseQuery, ErrOpaque}
      [] l = "d_get" -> {ErrDatabaseQuery}
      [] l = "d_getmedia" -> {ErrMediaQueryFailed}
      [] l = "d_detach" -> {ErrMediaDetachFailed}
      [] l = "d_find" -> {ErrTagQueryFailed}
      [] l = "d_untag" -> {ErrTagDeleteFailed}
      [] l = "d_delete" -> {ErrDatabaseQuery}
      [] OTHER -> {}

\* the Commit control point of a use-case
CommitStep(op) ==
    CASE op = "create" -> "c_commit"
      [] op = "createG" -> "cg_commit"
      [] op = "update" -> "u_commit"
      [] op = "delete" -> "d_commit"

\* variant of StatementFails: the error of the repository call is logged and
\* the use-case goes on to Commit
StatementFailsTolerated(p) ==
    /\ ErrorsAt(pc[p]) # {}
    /\ tx[p].open
    /\ IF tx[p].aborted THEN UNCHANGED nfault ELSE Fault
    /\ Goto(p, CommitStep(call[p].op))
    /\ tx' = [tx EXCEPT ![p].aborted = TRUE]
    /\ hist' = [hist EXCEPT ![p].faulted = @ \/ ~tx[p].aborted]
    /\ UNCHANGED <<db, seq, now, call, loc, res, gor, created, touched, durable,
                   deleted, nreq, rpc>>
    /\ UNCHANGED cvars

\* a repository call inside the transaction returns a database error (lost
\* connection, cancelled context, lock timeout, aborted transaction): the
\* use-case returns the mapped error
StatementFails(p) ==
    /\ ErrorsAt(pc[p]) # {}
    /\ tx[p].open
    /\ IF tx[p].aborted THEN UNCHANGED nfault ELSE Fault
    /\ \E e \in ErrorsAt(pc[p]) : ReturnErr(p, e)
    /\ tx' = [tx EXCEPT ![p].aborted = TRUE]
    /\ hist' = [hist EXCEPT ![p].faulted = @ \/ ~tx[p].aborted]
    /\ UNCHANGED <<db, seq, now, call, loc, gor, created, touched, durable,
                   deleted, nreq, rpc>>
    /\ UNCHANGED cvars

(* ------------------------------ CreatePost ---------------------------- *)

\* outcomes of UserClient.GetUser
UserOutcomes == {"ok", "notfound", "unavailable"}

\* variant of CreatePost_GetUser: the error of the lookup is not returned
CreatePost_GetUserIgnored(p) ==
    /\ pc[p] = "c_user"
    /\ \E o \in UserOutcomes :
          IF o = "ok"
          THEN /\ loc' = [loc EXCEPT ![p].author = [id |-> call[p].user]]
               /\ hist' = [hist EXCEPT ![p].lookup = "ok"]
               /\ UNCHANGED nfault
          ELSE /\ Fault
               /\ hist' = [hist EXCEPT ![p].faulted = TRUE, ![p].lookup = "failed"]
               /\ UNCHANGED loc
    /\ Goto(p, "c_begin")
    /\ UNCHANGED <<db, seq, now, tx, call, res, gor, created, touched, durable,
                   deleted, nreq, rpc>>
    /\ UNCHANGED cvars

\* s.userClient.GetUser before the transaction
CreatePost_GetUser(p) ==
    /\ pc[p] = "c_user"
    /\ \E o \in UserOutcomes :
          IF o = "ok"
          THEN /\ loc' = [loc EXCEPT ![p].author = [id |-> call[p].user]]
               /\ Goto(p, "c_begin")
               /\ hist' = [hist EXCEPT ![p].lookup = "ok"]
               /\ UNCHANGED <<res, nfault>>
          ELSE /\ Fault
               /\ Return(p, NoOut, ErrExternalServiceError)
               /\ hist' = [hist EXCEPT ![p].faulted = TRUE, ![p].lookup = "failed"]
               /\ UNCHANGED loc
    /\ UNCHANGED <<db, seq, now, tx, call, gor, created, touched, durable,
                   deleted, nreq, rpc>>
    /\ UNCHANGED cvars

\* the step after the post row (and its media) are written: the lookup-first
\* CreatePost (impl = "c_") finds the existing tags first, the concurrent one
\* (impl = "cg_") creates every name
TagStep(impl) == IF impl = "c_" THEN "c_find" ELSE "cg_tagcreate"

AfterCreate(impl, c) ==
    IF c.media # <<>> THEN impl \o "attach"
    ELSE IF c.tags # <<>> THEN TagStep(impl) ELSE impl \o "commit"

\* postRepo.Create
PostCreate(p, impl) ==
    /\ pc[p] = impl \o "create"
    /\ Usable(TxRepository(p))
    /\ LET row == NewPostRow(seq.post, call[p].user, call[p].title, call[p].content, now)
       IN  /\ Write(TxRepository(p), Rows({row}, {}, {}, {}), NoRows, FALSE)
           /\ loc' = [loc EXCEPT ![p].post = row]
    /\ seq' = [seq EXCEPT !.post = @ + 1]
    /\ now' = now + 1
    /\ Goto(p, AfterCreate(impl, call[p]))
    /\ UNCHANGED <<call, res, gor, hist, created, touched, durable, deleted, nreq, nfault, rpc>>
    /\ UNCHANGED cvars

\* mediaRepo.Attach of the new post's media
MediaAttach(p, impl) ==
    /\ pc[p] = impl \o "attach"
    /\ Usable(TxRepository(p))
    /\ LET rows == AttachRows(loc[p].post.id, call[p].media, seq.media)
           v == View(TxRepository(p))
       IN  IF loc[p].post.id \notin PostIds(v) \/ ~MediaRowOK(call[p].media[1])
           THEN /\ Write(TxRepository(p), NoRows, NoRows, TRUE)
                /\ ReturnErr(p, ErrMediaAttachFailed)
                /\ UNCHANGED seq
           ELSE /\ Write(TxRepository(p), Rows({}, rows, {}, {}), NoRows,
                         \E m \in rows : ~MediaRowOK(m))
                /\ seq' = [seq EXCEPT !.media = @ + Len(call[p].media)]
                /\ Goto(p, impl \o "getmedia")
                /\ UNCHANGED res
    /\ UNCHANGED <<now, call, loc, gor, hist, created, touched, durable, deleted, nreq, nfault, rpc>>
    /\ UNCHANGED cvars

\* mediaRepo.GetByPost re-reads the attached rows
MediaGetByPost(p, impl) ==
    /\ pc[p] = impl \o "getmedia"
    /\ Usable(TxRepository(p))
    /\ loc' = [loc EXCEPT ![p].media = GetByPost(View(TxRepository(p)), loc[p].post.id)]
    /\ Goto(p, IF call[p].tags # <<>> THEN TagStep(impl) ELSE impl \o "commit")
    /\ UNCHANGED <<db, seq, now, tx, call, res, gor, hist, created, touched, durable,
                   deleted, nreq, nfault, rpc>>
    /\ UNCHANGED cvars

\* tagRepo.FindByNames and the list of missing names
CreatePost_FindByNames(p) ==
    /\ pc[p] = "c_find"
    /\ Usable(TxRepository(p))
    /\ LET existing == FindByNames(View(TxRepository(p)), call[p].tags)
           missing == SelectNotIn(call[p].tags, {t.name : t \in Range(existing)})
       IN  /\ loc' = [loc EXCEPT ![p].tags = existing, ![p].names = missing]
           /\ Goto(p, IF missing # <<>> THEN "c_tagcreate" ELSE "c_tagpost")
    /\ UNCHANGED <<db, seq, now, tx, call, res, gor, hist, created, touched, durable,
                   deleted, nreq, nfault, rpc>>
    /\ UNCHANGED cvars

\* TagRepository.Create(name): INSERT ... ON CONFLICT (name) DO NOTHING, and
\* FindByNames when no row was returned.  The insert waits while another open
\* transaction holds the name.
TagCreate(p, h, name) ==
    /\ Usable(h)
    /\ name \notin NamesHeldBy(p)
    /\ LET v == View(h)
           found == TagIdOf(v, name)
           tag == [id |-> IF found # 0 THEN found ELSE seq.tag, name |-> name]
       IN  /\ Write(h, Rows({}, {}, IF found # 0 THEN {} ELSE {tag}, {}), NoRows, FALSE)
           /\ seq' = [seq EXCEPT !.tag = IF found # 0 THEN @ ELSE @ + 1]
           /\ loc' = [loc EXCEPT ![p].tags = Append(@, tag), ![p].names = Tail(@)]

\* tagRepo.Create for the next name to create
TagCreateNext(p, impl) ==
    /\ pc[p] = impl \o "tagcreate"
    /\ TagCreate(p, TxRepository(p), Head(loc[p].names))
    /\ Goto(p, IF Tail(loc[p].names) # <<>> THEN impl \o "tagcreate" ELSE impl \o "tagpost")
    /\ UNCHANGED <<now, call, res, gor, hist, created, touched, durable, deleted, nreq, nfault, rpc>>
    /\ UNCHANGED cvars

\* tagRepo.TagPost links the post to every name of the request
TagPost(p, impl) ==
    /\ pc[p] = impl \o "tagpost"
    /\ Usable(TxRepository(p))
    /\ LET v == View(TxRepository(p))
           r == InsertLinks(v, v.links, loc[p].post.id, call[p].tags)
       IN  /\ Write(TxRepository(p), Rows({}, {}, {}, r.links), NoRows, r.code # OK)
           /\ IF TagPostErr(r.code) = OK
              THEN Goto(p, impl \o "commit") /\ UNCHANGED res
              ELSE ReturnErr(p, IF impl = "c_" THEN TagPostErr(r.code) ELSE ErrTagPost)
    /\ UNCHANGED <<seq, now, call, loc, gor, hist, created, touched, durable, deleted,
                   nreq, nfault, rpc>>
    /\ UNCHANGED cvars

\* the steps of the lookup-first CreatePost
CreatePost_Create(p) == PostCreate(p, "c_")
CreatePost_Attach(p) == MediaAttach(p, "c_")
CreatePost_GetMedia(p) == MediaGetByPost(p, "c_")
CreatePost_CreateTag(p) == TagCreateNext(p, "c_")
CreatePost_TagPost(p) == TagPost(p, "c_")

(* ------------- CreatePost with the concurrent user lookup ------------- *)

\* a CreatePost request arrives at the implementation that starts the user
\* lookup in a goroutine and goes on to UnitOfWork.Begin
StartCreateG(p) ==
    /\ CanStart(p) /\ p \in Writers
    /\ \E u \in Authors, t \in CreateTitles, pl \in Payloads :
          call' = [call EXCEPT ![p] = [op |-> "createG", user |-> u, id |-> 0,
                     title |-> t, content |-> NULL, tags |-> pl.tags,
                     media |-> pl.media]]
    /\ Goto(p, "cg_begin")
    /\ gor' = [gor EXCEPT ![p] = "running"]
    /\ nreq' = nreq + 1
    /\ loc' = [loc EXCEPT ![p] = [NoLoc EXCEPT !.names = call'[p].tags]]
    /\ res' = [res EXCEPT ![p] = NoRes]
    /\ hist' = [hist EXCEPT ![p] = [NoHist EXCEPT !.pre = db]]
    /\ UNCHANGED <<db, seq, now, tx, created, touched, durable, deleted, nfault, rpc>>
    /\ UNCHANGED cvars

\* the goroutine: author, userErr = s.userClient.GetUser(...); wg.Done()
UserLookup(p) ==
    /\ gor[p] = "running"
    /\ \E o \in UserOutcomes :
          IF o = "ok"
          THEN /\ gor' = [gor EXCEPT ![p] = "ok"]
               /\ loc' = [loc EXCEPT ![p].author = [id |-> call[p].user]]
               /\ UNCHANGED <<hist, nfault>>
          ELSE /\ Fault
               /\ gor' = [gor EXCEPT ![p] = "failed"]
               /\ hist' = [hist EXCEPT ![p].faulted = TRUE]
               /\ UNCHANGED loc
    /\ UNCHANGED <<db, seq, now, tx, pc, call, res, created, touched, durable,
                   deleted, nreq, rpc>>
    /\ UNCHANGED cvars

CreatePostG_Create(p) == PostCreate(p, "cg_")
CreatePostG_Attach(p) == MediaAttach(p, "cg_")
CreatePostG_GetMedia(p) == MediaGetByPost(p, "cg_")
CreatePostG_CreateTag(p) == TagCreateNext(p, "cg_")
CreatePostG_TagPost(p) == TagPost(p, "cg_")

\* tagRepo.Create fails in the loop: its error is a variable of the loop
\* body, the deferred function reads the outer err, which is nil, and does
\* not roll back
CreatePostG_CreateTagFails(p) ==
    /\ pc[p] = "cg_tagcreate"
    /\ tx[p].open
    /\ IF tx[p].aborted THEN UNCHANGED nfault ELSE Fault
    /\ Return(p, NoOut, ErrTagCreateFailed)
    /\ tx' = [tx EXCEPT ![p].aborted = TRUE]
    /\ hist' = [hist EXCEPT ![p].faulted = TRUE]
    /\ UNCHANGED <<db, seq, now, call, loc, gor, created, touched, durable,
                   deleted, nreq, rpc>>
    /\ UNCHANGED cvars

\* tx.Commit succeeds; the use-case goes on to wg.Wait()
CreatePostG_Commit(p) ==
    /\ pc[p] = "cg_commit"
    /\ tx[p].open /\ ~tx[p].aborted
    /\ db' = View(p)
    /\ tx' = [tx EXCEPT ![p] = NoTx]
    /\ hist' = AfterCommit(p, View(p), FALSE)
    /\ loc' = [loc EXCEPT ![p].committed = TRUE]
    /\ durable' = [t \in DOMAIN db |-> durable[t] \cup View(p)[t]]
    /\ Goto(p, "cg_wait")
    /\ UNCHANGED <<seq, now, call, res, gor, created, touched, deleted, nreq,
                   nfault, rpc>>
    /\ UNCHANGED cvars

\* wg.Wait() returns; userErr decides the result
CreatePostG_Wait(p) ==
    /\ pc[p] = "cg_wait"
    /\ gor[p] \in {"ok", "failed"}
    /\ IF gor[p] = "failed"
       THEN /\ Return(p, NoOut, ErrExternalServiceError)
            /\ UNCHANGED created
       ELSE /\ Return(p, PostDetailed(loc[p].post, loc[p].author, loc[p].media,
                                      loc[p].tags), OK)
            /\ created' = (loc[p].post.id :> [media |-> call[p].media,
                                              tags |-> call[p].tags]) @@ created
    /\ UNCHANGED <<db, seq, now, tx, call, loc, gor, hist, touched, durable,
                   deleted, nreq, nfault, rpc>>
    /\ UNCHANGED cvars

(* ------------------------------ UpdatePost ---------------------------- *)

\* variant of UpdatePost_GetByID: the author check is missing
UpdatePost_GetByIDAnyCaller(p) ==
    /\ pc[p] = "u_get"
    /\ Usable(TxRepository(p))
    /\ LET post == GetByID(View(TxRepository(p)), call[p].id)
       IN  /\ loc' = [loc EXCEPT ![p].post = post, ![p].names = call[p].tags]
           /\ IF post = NoPost THEN ReturnErr(p, ErrPostNotFound)
              ELSE Goto(p, "u_update") /\ UNCHANGED res
    /\ UNCHANGED <<db, seq, now, tx, call, gor, hist, created, touched, durable,
                   deleted, nreq, nfault, rpc>>
    /\ UNCHANGED cvars

\* postRepo.GetByID inside the transaction, and the author check
UpdatePost_GetByID(p) ==
    /\ pc[p] = "u_get"
    /\ Usable(TxRepository(p))
    /\ LET post == GetByID(View(TxRepository(p)), call[p].id)
       IN  /\ loc' = [loc EXCEPT ![p].post = post, ![p].names = call[p].tags]
           /\ IF post = NoPost THEN ReturnErr(p, ErrPostNotFound)
              ELSE IF post.author # call[p].user THEN ReturnErr(p, ErrInvalidInput)
              ELSE Goto(p, "u_update") /\ UNCHANGED res
    /\ UNCHANGED <<db, seq, now, tx, call, gor, hist, created, touched, durable,
                   deleted, nreq, nfault, rpc>>
    /\ UNCHANGED cvars

AfterUpdate(c) ==
    IF c.media # <<>> THEN "u_getmedia"
    ELSE IF c.tags # <<>> THEN "u_tagcreate" ELSE "u_commit"

\* postRepo.Update: UPDATE posts SET ... WHERE id = @id RETURNING ...; waits
\* while another open transaction has changed the row
UpdatePost_Update(p) ==
    /\ pc[p] = "u_update"
    /\ Usable(TxRepository(p))
    /\ LET v == View(TxRepository(p))
           row == GetByID(v, call[p].id)
       IN  /\ row \notin LockedBy(p, "posts")
           /\ IF row = NoPost
              THEN /\ ReturnErr(p, ErrPostNotFound)
                   /\ UNCHANGED <<db, tx>>
              ELSE /\ Write(TxRepository(p),
                            Rows({UpdatedPostRow(row, call[p].title, call[p].content, now)},
                                 {}, {}, {}),
                            Rows({row}, {}, {}, {}), FALSE)
                   /\ Goto(p, AfterUpdate(call[p]))
                   /\ UNCHANGED res
    /\ now' = now + 1
    /\ UNCHANGED <<seq, call, loc, gor, hist, created, touched, durable, deleted,
                   nreq, nfault, rpc>>
    /\ UNCHANGED cvars

\* mediaRepo.GetByPost: the media to clear (only when media_items is non-empty)
UpdatePost_GetMedia(p) ==
    /\ pc[p] = "u_getmedia"
    /\ Usable(TxRepository(p))
    /\ loc' = [loc EXCEPT ![p].media = GetByPost(View(TxRepository(p)), call[p].id)]
    /\ Goto(p, "u_detach")
    /\ UNCHANGED <<db, seq, now, tx, call, res, gor, hist, created, touched, durable,
                   deleted, nreq, nfault, rpc>>
    /\ UNCHANGED cvars

\* MediaRepository.Detach: DELETE FROM post_media WHERE id = ANY(@ids)
DetachRows(v, media) ==
    {m \in v.media : m.id \in {x.id : x \in Range(media)}}

\* mediaRepo.Detach of the old media
UpdatePost_Detach(p) ==
    /\ pc[p] = "u_detach"
    /\ Usable(TxRepository(p))
    /\ LET gone == DetachRows(View(TxRepository(p)), loc[p].media)
       IN  /\ gone \cap LockedBy(p, "media") = {}
           /\ Write(TxRepository(p), NoRows, Rows({}, gone, {}, {}), FALSE)
    /\ Goto(p, "u_attach")
    /\ UNCHANGED <<seq, now, call, loc, res, gor, hist, created, touched, durable,
                   deleted, nreq, nfault, rpc>>
    /\ UNCHANGED cvars

\* ids of posts another open transaction has deleted
DeletedBy(p) ==
    {r.id : r \in LockedBy(p, "posts")}
        \ UNION {{r.id : r \in tx[q].ins.posts} : q \in Procs \ {p}}

\* mediaRepo.Attach of the new media
UpdatePost_Attach(p) ==
    /\ pc[p] = "u_attach"
    /\ Usable(TxRepository(p))
    /\ call[p].id \notin DeletedBy(p)
    /\ LET rows == AttachRows(call[p].id, call[p].media, seq.media)
           v == View(TxRepository(p))
       IN  IF call[p].id \notin PostIds(v) \/ ~MediaRowOK(call[p].media[1])
           THEN /\ Write(TxRepository(p), NoRows, NoRows, TRUE)
                /\ ReturnErr(p, ErrMediaAttachFailed)
                /\ UNCHANGED seq
           ELSE /\ Write(TxRepository(p), Rows({}, rows, {}, {}), NoRows,
                         \E m \in rows : ~MediaRowOK(m))
                /\ seq' = [seq EXCEPT !.media = @ + Len(call[p].media)]
                /\ Goto(p, IF call[p].tags # <<>> THEN "u_tagcreate" ELSE "u_commit")
                /\ UNCHANGED res
    /\ UNCHANGED <<now, call, loc, gor, hist, created, touched, durable, deleted, nreq, nfault, rpc>>
    /\ UNCHANGED cvars

\* tagRepo.Create for the next name of the request
UpdatePost_CreateTag(p) ==
    /\ pc[p] = "u_tagcreate"
    /\ TagCreate(p, TxRepository(p), Head(loc[p].names))
    /\ Goto(p, IF Tail(loc[p].names) # <<>> THEN "u_tagcreate" ELSE "u_replace")
    /\ UNCHANGED <<now, call, res, gor, hist, created, touched, durable, deleted, nreq, nfault, rpc>>
    /\ UNCHANGED cvars

\* variant of UpdatePost_ReplacePostTags: the old links are kept and the
\* names of the request are linked in addition to them
UpdatePost_AddPostTags(p) ==
    /\ pc[p] = "u_replace"
    /\ Usable(TxRepository(p))
    /\ call[p].id \notin DeletedBy(p)
    /\ LET v == View(TxRepository(p))
           new == {[post |-> call[p].id, tag |-> TagIdOf(v, n)] : n \in Range(call[p].tags)}
       IN  Write(TxRepository(p), Rows({}, {}, {}, new \ v.links), NoRows, FALSE)
    /\ Goto(p, "u_commit")
    /\ UNCHANGED <<seq, now, call, loc, res, gor, hist, created, touched, durable,
                   deleted, nreq, nfault, rpc>>
    /\ UNCHANGED cvars

\* tagRepo.ReplacePostTags: DELETE FROM posts_tags WHERE post_id = @post_id,
\* then the batch of inserts
UpdatePost_ReplacePostTags(p) ==
    /\ pc[p] = "u_replace"
    /\ Usable(TxRepository(p))
    /\ call[p].id \notin DeletedBy(p)
    /\ LET v == View(TxRepository(p))
           old == {l \in v.links : l.post = call[p].id}
           r == InsertLinks(v, v.links \ old, call[p].id, call[p].tags)
       IN  /\ old \cap LockedBy(p, "links") = {}
           /\ Write(TxRepository(p), Rows({}, {}, {}, r.links),
                    Rows({}, {}, {}, old \ r.links), r.code # OK)
           /\ IF ReplacePostTagsErr(r.code) = OK
              THEN Goto(p, "u_commit") /\ UNCHANGED res
              ELSE ReturnErr(p, ReplacePostTagsErr(r.code))
    /\ UNCHANGED <<seq, now, call, loc, gor, hist, created, touched, durable, deleted,
                   nreq, nfault, rpc>>
    /\ UNCHANGED cvars

(* ------------------------------ DeletePost ---------------------------- *)

\* variant of DeletePost_GetByID: the author check is missing
DeletePost_GetByIDAnyCaller(p) ==
    /\ pc[p] = "d_get"
    /\ Usable(TxRepository(p))
    /\ LET post == GetByID(View(TxRepository(p)), call[p].id)
       IN  /\ loc' = [loc EXCEPT ![p].post = post]
           /\ IF post = NoPost THEN ReturnErr(p, ErrPostNotFound)
              ELSE Goto(p, "d_getmedia") /\ UNCHANGED res
    /\ UNCHANGED <<db, seq, now, tx, call, gor, hist, created, touched, durable,
                   deleted, nreq, nfault, rpc>>
    /\ UNCHANGED cvars

\* postRepo.GetByID inside the transaction, and the author check
DeletePost_GetByID(p) ==
    /\ pc[p] = "d_get"
    /\ Usable(TxRepository(p))
    /\ LET post == GetByID(View(TxRepository(p)), call[p].id)
       IN  /\ loc' = [loc EXCEPT ![p].post = post]
           /\ IF post = NoPost THEN ReturnErr(p, ErrPostNotFound)
              ELSE IF post.author # call[p].user THEN ReturnErr(p, ErrForbidden)
              ELSE Goto(p, "d_getmedia") /\ UNCHANGED res
    /\ UNCHANGED <<db, seq, now, tx, call, gor, hist, created, touched, durable,
                   deleted, nreq, nfault, rpc>>
    /\ UNCHANGED cvars

\* mediaRepo.GetByPost: the media ids to detach
DeletePost_GetMedia(p) ==
    /\ pc[p] = "d_getmedia"
    /\ Usable(TxRepository(p))
    /\ LET media == GetByPost(View(TxRepository(p)), call[p].id)
       IN  /\ loc' = [loc EXCEPT ![p].media = media]
           /\ Goto(p, IF media # <<>> THEN "d_detach" ELSE "d_find")
    /\ UNCHANGED <<db, seq, now, tx, call, res, gor, hist, created, touched, durable,
                   deleted, nreq, nfault, rpc>>
    /\ UNCHANGED cvars

\* mediaRepo.Detach of the post's media
DeletePost_Detach(p) ==
    /\ pc[p] = "d_detach"
    /\ Usable(TxRepository(p))
    /\ LET gone == DetachRows(View(TxRepository(p)), loc[p].media)
       IN  /\ gone \cap LockedBy(p, "media") = {}
           /\ Write(TxRepository(p), NoRows, Rows({}, gone, {}, {}), FALSE)
    /\ Goto(p, "d_find")
    /\ UNCHANGED <<seq, now, call, loc, res, gor, hist, created, touched, durable,
                   deleted, nreq, nfault, rpc>>
    /\ UNCHANGED cvars

\* tagRepo.FindByPost: the tag names to unlink
DeletePost_FindByPost(p) ==
    /\ pc[p] = "d_find"
    /\ Usable(TxRepository(p))
    /\ LET tags == FindByPost(View(TxRepository(p)), call[p].id)
       IN  /\ loc' = [loc EXCEPT ![p].tags = tags]
           /\ Goto(p, IF tags # <<>> THEN "d_untag" ELSE "d_delete")
    /\ UNCHANGED <<db, seq, now, tx, call, res, gor, hist, created, touched, durable,
                   deleted, nreq, nfault, rpc>>
    /\ UNCHANGED cvars

\* TagRepository.UntagPost: DELETE FROM posts_tags WHERE post_id = @post_id
\* AND tag_id = (SELECT id FROM tags WHERE name = @tag_name), for every name
UntagRows(v, postID, names) ==
    {l \in v.links : l.post = postID /\ \E n \in Range(names) : l.tag = TagIdOf(v, n)}

\* tagRepo.UntagPost of the post's tag names
DeletePost_UntagPost(p) ==
    /\ pc[p] = "d_untag"
    /\ Usable(TxRepository(p))
    /\ LET v == View(TxRepository(p))
           gone == UntagRows(v, call[p].id, [i \in DOMAIN loc[p].tags |-> loc[p].tags[i].name])
       IN  /\ gone \cap LockedBy(p, "links") = {}
           /\ Write(TxRepository(p), NoRows, Rows({}, {}, {}, gone), FALSE)
    /\ Goto(p, "d_delete")
    /\ UNCHANGED <<seq, now, call, loc, res, gor, hist, created, touched, durable,
                   deleted, nreq, nfault, rpc>>
    /\ UNCHANGED cvars

\* variant of DeleteRows: the rows of the post's media and links only
DeleteRowsOfChildren(v, id) ==
    Rows({}, {m \in v.media : m.post = id}, {}, {l \in v.links : l.post = id})

\* variant of DeleteRows: the row of the post only, nothing cascades
DeleteRowsOfPost(v, id) == Rows({r \in v.posts : r.id = id}, {}, {}, {})

\* PostRepository.Delete: DELETE FROM posts WHERE id = @id, with the cascade
\* to post_media and posts_tags
DeleteRows(v, id) ==
    Rows({r \in v.posts : r.id = id}, {m \in v.media : m.post = id}, {},
         {l \in v.links : l.post = id})

\* postRepo.Delete; no row affected is PostNotFound
DeletePost_Delete(p) ==
    /\ pc[p] = "d_delete"
    /\ Usable(TxRepository(p))
    /\ call[p].id \notin PinnedBy(p)
    /\ LET gone == DeleteRows(View(TxRepository(p)), call[p].id)
       IN  /\ \A t \in DOMAIN gone : gone[t] \cap LockedBy(p, t) = {}
           /\ IF gone.posts = {}
              THEN ReturnErr(p, ErrPostNotFound) /\ UNCHANGED <<db, tx>>
              ELSE /\ Write(TxRepository(p), NoRows, gone, FALSE)
                   /\ Goto(p, "d_commit")
                   /\ UNCHANGED res
    /\ UNCHANGED <<seq, now, call, loc, gor, hist, created, touched, durable, deleted,
                   nreq, nfault, rpc>>
    /\ UNCHANGED cvars

(* ------------------------------ GetPostByID --------------------------- *)

\* s.postRepo.GetByID on the pool
GetPostByID_Post(p) ==
    /\ pc[p] = "g_post"
    /\ LET post == GetByID(View(Pool), call[p].id)
       IN  IF post = NoPost
           THEN Return(p, NoOut, ErrPostNotFound) /\ UNCHANGED loc
           ELSE /\ loc' = [loc EXCEPT ![p].post = post]
                /\ Goto(p, "g_user") /\ UNCHANGED res
    /\ UNCHANGED <<db, seq, now, tx, call, gor, hist, created, touched, durable,
                   deleted, nreq, nfault, rpc>>
    /\ UNCHANGED cvars

\* s.userClient.GetUser(post.AuthorID)
GetPostByID_User(p) ==
    /\ pc[p] = "g_user"
    /\ \E o \in UserOutcomes :
          IF o = "ok"
          THEN /\ loc' = [loc EXCEPT ![p].author = [id |-> loc[p].post.author]]
               /\ Goto(p, "g_media")
               /\ UNCHANGED <<res, hist, nfault>>
          ELSE /\ Fault
               /\ Return(p, NoOut, IF o = "notfound" THEN ErrUserNotFound
                                   ELSE ErrExternalServiceError)
               /\ hist' = [hist EXCEPT ![p].faulted = TRUE]
               /\ UNCHANGED loc
    /\ UNCHANGED <<db, seq, now, tx, call, gor, created, touched, durable,
                   deleted, nreq, rpc>>
    /\ UNCHANGED cvars

\* s.mediaRepo.GetByPost on the pool
GetPostByID_Media(p) ==
    /\ pc[p] = "g_media"
    /\ loc' = [loc EXCEPT ![p].media = GetByPost(View(Pool), call[p].id)]
    /\ Goto(p, "g_tags")
    /\ UNCHANGED <<db, seq, now, tx, call, res, gor, hist, created, touched, durable,
                   deleted, nreq, nfault, rpc>>
    /\ UNCHANGED cvars

\* s.tagRepo.FindByPost on the pool, and the composed PostDetailed
GetPostByID_Tags(p) ==
    /\ pc[p] = "g_tags"
    /\ Return(p, PostDetailed(loc[p].post, loc[p].author, loc[p].media,
                              FindByPost(View(Pool), call[p].id)), OK)
    /\ UNCHANGED <<db, seq, now, tx, call, loc, gor, hist, created, touched, durable,
                   deleted, nreq, nfault, rpc>>
    /\ UNCHANGED cvars

\* a query of GetPostByID returns a database error
GetPostByID_QueryFails(p) ==
    /\ pc[p] \in {"g_post", "g_media", "g_tags"}
    /\ Return(p, NoOut, CASE pc[p] = "g_post" -> ErrDatabaseQuery
                          [] pc[p] = "g_media" -> ErrMediaQueryFailed
                          [] pc[p] = "g_tags" -> ErrTagQueryFailed)
    /\ Fault
    /\ hist' = [hist EXCEPT ![p].faulted = TRUE]
    /\ UNCHANGED <<db, seq, now, tx, call, loc, gor, created, touched, durable,
                   deleted, nreq, rpc>>
    /\ UNCHANGED cvars

(* ------------------------------ behaviours ---------------------------- *)

Next ==
    \E p \in Procs :
        \/ StartCreate(p)
        \/ StartGet(p)
        \/ Begin(p)
        \/ BeginFails(p)
        \/ Commit(p)
        \/ CommitFails(p)
        \/ Rollback(p)
        \/ StatementFails(p)
        \/ CreatePost_GetUser(p)
        \/ CreatePost_Create(p)
        \/ CreatePost_Attach(p)
        \/ CreatePost_GetMedia(p)
        \/ CreatePost_FindByNames(p)
        \/ CreatePost_CreateTag(p)
        \/ CreatePost_TagPost(p)
        \/ StartUpdate(p)
        \/ UpdatePost_GetByID(p)
        \/ UpdatePost_Update(p)
        \/ UpdatePost_GetMedia(p)
        \/ UpdatePost_Detach(p)
        \/ UpdatePost_Attach(p)
        \/ UpdatePost_CreateTag(p)
        \/ UpdatePost_ReplacePostTags(p)
        \/ StartDelete(p)
        \/ DeletePost_GetByID(p)
        \/ DeletePost_GetMedia(p)
        \/ DeletePost_Detach(p)
        \/ DeletePost_FindByPost(p)
        \/ DeletePost_UntagPost(p)
        \/ DeletePost_Delete(p)
        \/ GetPostByID_Post(p)
        \/ GetPostByID_User(p)
        \/ GetPostByID_Media(p)
        \/ GetPostByID_Tags(p)
        \/ GetPostByID_QueryFails(p)

Spec == Init /\ [][Next]_vars

(* --------------------------- inbound handlers ------------------------- *)

\* request ids of the RPCs: 0 fails the validation `required,gt=0`
RpcIds == {0, 1}

\* what the PostService behind a handler can return
ServiceResults == {OK} \cup ErrorKinds

\* UpdatePostHandler: status of an error of postService.UpdatePost
UpdateStatus(err) ==
    CASE err = ErrPostNotFound -> "NotFound"
      [] err = ErrPostValidation -> "InvalidArgument"
      [] err \in {ErrForbidden, ErrInvalidInput} -> "PermissionDenied"
      [] OTHER -> "Internal"

\* UpdatePostHandler: status of an error of the postService.GetPostByID that
\* follows a successful update
UpdateRefreshStatus(err) ==
    CASE err = ErrPostNotFound -> "NotFound"
      [] err = ErrPostValidation -> "InvalidArgument"
      [] err = ErrForbidden -> "PermissionDenied"
      [] OTHER -> "Internal"

\* DeletePostHandler: status of an error of postService.DeletePost
DeleteStatus(err) ==
    CASE err = ErrPostNotFound -> "NotFound"
      [] err = ErrPostValidation -> "InvalidArgument"
      [] err = ErrForbidden -> "PermissionDenied"
      [] OTHER -> "Internal"

\* an UpdatePost or DeletePost RPC arrives
Receive ==
    /\ rpc.stage \in {"idle", "answered"}
    /\ \E m \in {"UpdatePost", "DeletePost"}, id \in RpcIds :
          rpc' = [NoRpc EXCEPT !.method = m, !.id = id, !.stage = "received"]
    /\ UNCHANGED <<db, seq, now, tx, pc, call, loc, res, gor, hist, created, touched,
                   durable, deleted, nreq, nfault>>
    /\ UNCHANGED cvars

\* h.validate.Struct fails: InvalidArgument, the service is not called
Validate_Fails ==
    /\ rpc.stage = "received"
    /\ rpc.id <= 0
    /\ rpc' = [rpc EXCEPT !.stage = "answered", !.status = "InvalidArgument"]
    /\ UNCHANGED <<db, seq, now, tx, pc, call, loc, res, gor, hist, created, touched,
                   durable, deleted, nreq, nfault>>
    /\ UNCHANGED cvars

\* the handler calls the service, which returns nil or an error
Service_Returns ==
    /\ rpc.stage = "received"
    /\ rpc.id > 0
    /\ \E e \in ServiceResults : rpc' = [rpc EXCEPT !.stage = "returned", !.err = e]
    /\ UNCHANGED <<db, seq, now, tx, pc, call, loc, res, gor, hist, created, touched,
                   durable, deleted, nreq, nfault>>
    /\ UNCHANGED cvars

\* UpdatePostHandler.UpdatePost after postService.UpdatePost
UpdatePostHandler_Respond ==
    /\ rpc.stage = "returned" /\ rpc.method = "UpdatePost"
    /\ rpc' = IF rpc.err # OK
              THEN [rpc EXCEPT !.stage = "answered", !.status = UpdateStatus(rpc.err)]
              ELSE [rpc EXCEPT !.stage = "refresh"]
    /\ UNCHANGED <<db, seq, now, tx, pc, call, loc, res, gor, hist, created, touched,
                   durable, deleted, nreq, nfault>>
    /\ UNCHANGED cvars

\* UpdatePostHandler.UpdatePost after postService.GetPostByID
UpdatePostHandler_Refresh ==
    /\ rpc.stage = "refresh"
    /\ \E e \in ServiceResults :
          rpc' = [rpc EXCEPT !.stage = "answered", !.geterr = e,
                             !.status = IF e = OK THEN "OK" ELSE UpdateRefreshStatus(e)]
    /\ UNCHANGED <<db, seq, now, tx, pc, call, loc, res, gor, hist, created, touched,
                   durable, deleted, nreq, nfault>>
    /\ UNCHANGED cvars

\* DeletePostHandler.DeletePost after postService.DeletePost
DeletePostHandler_Respond ==
    /\ rpc.stage = "returned" /\ rpc.method = "DeletePost"
    /\ rpc' = [rpc EXCEPT !.stage = "answered",
                          !.status = IF rpc.err = OK THEN "OK" ELSE DeleteStatus(rpc.err)]
    /\ UNCHANGED <<db, seq, now, tx, pc, call, loc, res, gor, hist, created, touched,
                   durable, deleted, nreq, nfault>>
    /\ UNCHANGED cvars

NextH ==
    \/ Receive
    \/ Validate_Fails
    \/ Service_Returns
    \/ UpdatePostHandler_Respond
    \/ UpdatePostHandler_Refresh
    \/ DeletePostHandler_Respond

\* the UpdatePost and DeletePost handlers over any PostService
SpecH == Init /\ [][NextH]_vars

\* the requests of the CreatePost with the concurrent user lookup
NextG ==
    \E p \in Writers :
        \/ StartCreateG(p)
        \/ UserLookup(p)
        \/ Begin(p)
        \/ BeginFails(p)
        \/ CreatePostG_Create(p)
        \/ CreatePostG_Attach(p)
        \/ CreatePostG_GetMedia(p)
        \/ CreatePostG_CreateTag(p)
        \/ CreatePostG_CreateTagFails(p)
        \/ CreatePostG_TagPost(p)
        \/ StatementFails(p)
        \/ CreatePostG_Commit(p)
        \/ CommitFails(p)
        \/ Rollback(p)
        \/ CreatePostG_Wait(p)

SpecG == Init /\ [][NextG]_vars


(* ------------- TagRepository.Create called concurrently --------------- *)

TagNames == {"a", "b"}

\* the handle of the repository that p's call runs on: the transaction when
\* p has one open, the pool otherwise
HandleOf(p) == IF tx[p].open THEN p ELSE Pool

\* hist when p starts a call with the record h: p's call and every call that
\* has not yet returned run concurrently
Overlaps(p, h) ==
    [q \in Procs |->
        IF q = p
        THEN [h EXCEPT !.interf = \E r \in Procs \ {p} : pc[r] \in {"t_insert", "t_find"}]
        ELSE IF pc[q] \in {"t_insert", "t_find"} THEN [hist[q] EXCEPT !.interf = TRUE]
        ELSE hist[q]]

\* a caller invokes Create(name) on the pool's TagRepository, or on the
\* TagRepository of a transaction it has just begun
TagCreate_Call(p) ==
    /\ CanStart(p)
    /\ \E name \in TagNames, inTx \in BOOLEAN :
          /\ call' = [call EXCEPT ![p] = [NoCall EXCEPT !.op = "tagcreate",
                                                        !.tags = <<name>>]]
          /\ tx' = [tx EXCEPT ![p] = [NoTx EXCEPT !.open = inTx]]
          /\ hist' = Overlaps(p, [NoHist EXCEPT !.pre = db, !.begun = inTx])
    /\ Goto(p, "t_insert")
    /\ nreq' = nreq + 1
    /\ loc' = [loc EXCEPT ![p] = NoLoc]
    /\ res' = [res EXCEPT ![p] = NoRes]
    /\ UNCHANGED <<db, seq, now, gor, created, touched, durable, deleted, nfault, rpc>>
    /\ UNCHANGED cvars

\* variant of TagInsertWaits: the insert does not wait for an open
\* transaction that has inserted the name
TagInsertNeverWaits(p, name) == FALSE

\* INSERT INTO tags waits while another open transaction has inserted the
\* name and not yet ended (unique index on tags.name)
TagInsertWaits(p, name) == name \in NamesHeldBy(p)

\* Create: INSERT INTO tags(name) ... ON CONFLICT (name) DO NOTHING RETURNING
\* id, name.  It returns the new row, or no row when the name exists.
TagCreate_Insert(p) ==
    /\ pc[p] = "t_insert"
    /\ LET name == call[p].tags[1]
           h == HandleOf(p)
           tag == [id |-> seq.tag, name |-> name]
       IN  /\ ~TagInsertWaits(p, name)
           /\ IF \E t \in View(h).tags : t.name = name
              THEN /\ Goto(p, "t_find")
                   /\ UNCHANGED <<db, tx, seq, loc, res, durable, hist>>
              ELSE /\ Write(h, Rows({}, {}, {tag}, {}), NoRows, FALSE)
                   /\ seq' = [seq EXCEPT !.tag = @ + 1]
                   /\ loc' = [loc EXCEPT ![p].tags = <<tag>>]
                   /\ res' = [res EXCEPT ![p] = [err |-> OK, out |-> NoOut]]
                   /\ Goto(p, IF h = Pool THEN "done" ELSE "t_ret")
                   /\ durable' = IF h = Pool
                                 THEN [durable EXCEPT !.tags = @ \cup {tag}]
                                 ELSE durable
                   /\ hist' = hist
    /\ UNCHANGED <<now, call, gor, created, touched, deleted, nreq, nfault, rpc>>
    /\ UNCHANGED cvars

\* Create, after pgx.ErrNoRows: FindByNames([name]) and return its first tag;
\* an error when it finds none
TagCreate_Find(p) ==
    /\ pc[p] = "t_find"
    /\ LET tags == FindByNames(View(HandleOf(p)), call[p].tags)
       IN  IF tags = <<>>
           THEN /\ res' = [res EXCEPT ![p] = [err |-> ErrOpaque, out |-> NoOut]]
                /\ UNCHANGED loc
           ELSE /\ res' = [res EXCEPT ![p] = [err |-> OK, out |-> NoOut]]
                /\ loc' = [loc EXCEPT ![p].tags = <<tags[1]>>]
    /\ Goto(p, IF tx[p].open THEN "t_ret" ELSE "done")
    /\ UNCHANGED <<db, seq, now, tx, call, gor, hist, created, touched, durable,
                   deleted, nreq, nfault, rpc>>
    /\ UNCHANGED cvars

\* the transaction that the call ran in commits
TagCreate_Commit(p) ==
    /\ pc[p] = "t_ret" /\ tx[p].open
    /\ db' = View(p)
    /\ durable' = [t \in DOMAIN db |-> durable[t] \cup View(p)[t]]
    /\ tx' = [tx EXCEPT ![p] = NoTx]
    /\ hist' = [hist EXCEPT ![p].commits = @ + 1]
    /\ Goto(p, "done")
    /\ UNCHANGED <<seq, now, call, loc, res, gor, created, touched, deleted,
                   nreq, nfault, rpc>>
    /\ UNCHANGED cvars

\* the transaction that the call ran in is rolled back
TagCreate_Rollback(p) ==
    /\ pc[p] = "t_ret" /\ tx[p].open
    /\ tx' = [tx EXCEPT ![p] = NoTx]
    /\ hist' = [hist EXCEPT ![p].rollbacks = @ + 1]
    /\ Goto(p, "done")
    /\ UNCHANGED <<db, seq, now, call, loc, res, gor, created, touched, durable,
                   deleted, nreq, nfault, rpc>>
    /\ UNCHANGED cvars

NextT ==
    \E p \in Procs :
        \/ TagCreate_Call(p)
        \/ TagCreate_Insert(p)
        \/ TagCreate_Find(p)
        \/ TagCreate_Commit(p)
        \/ TagCreate_Rollback(p)

SpecT == Init /\ [][NextT]_vars


(* ------------------------- the cache decorator ------------------------ *)

\* Client.Set: json.Marshal of a PostDetailed.  Post, Author, Media, Tags and
\* Post.Content carry omitempty: a nil pointer and an empty list are left out.
EncodePost(pd) ==
    [post |-> [present |-> pd.post # NoPost,
               id |-> pd.post.id, author |-> pd.post.author,
               title |-> pd.post.title,
               content |-> [present |-> pd.post.content # NULL,
                            value |-> pd.post.content],
               created |-> pd.post.created, updated |-> pd.post.updated],
     author |-> [present |-> pd.author # NoUser, id |-> pd.author.id],
     media |-> [present |-> pd.media # <<>>, items |-> pd.media],
     tags |-> [present |-> pd.tags # <<>>, items |-> pd.tags]]

\* variant of DecodePost: the tags of the entry are not read back
DecodePostWithoutTags(j) ==
    PostDetailed(IF j.post.present
                 THEN [id |-> j.post.id, author |-> j.post.author,
                       title |-> j.post.title,
                       content |-> IF j.post.content.present
                                   THEN j.post.content.value ELSE NULL,
                       created |-> j.post.created, updated |-> j.post.updated]
                 ELSE NoPost,
                 IF j.author.present THEN [id |-> j.author.id] ELSE NoUser,
                 IF j.media.present THEN j.media.items ELSE <<>>,
                 <<>>)

\* Client.Get: json.Unmarshal into a zero PostDetailed; a key that is left
\* out leaves the field nil
DecodePost(j) ==
    PostDetailed(IF j.post.present
                 THEN [id |-> j.post.id, author |-> j.post.author,
                       title |-> j.post.title,
                       content |-> IF j.post.content.present
                                   THEN j.post.content.value ELSE NULL,
                       created |-> j.post.created, updated |-> j.post.updated]
                 ELSE NoPost,
                 IF j.author.present THEN [id |-> j.author.id] ELSE NoUser,
                 IF j.media.present THEN j.media.items ELSE <<>>,
                 IF j.tags.present THEN j.tags.items ELSE <<>>)

\* variant of getPostKey: the id is not part of the key
getPostKeyShared(postID) == 1

\* PostCache.getPostKey: the key of a post ("post:" and the id)
getPostKey(postID) == postID

\* Client.Delete / key expiry: the cache without key k
WithoutKey(c, k) == [x \in DOMAIN c \ {k} |-> c[x]]

\* Client.Set: the cache with value v under key k
WithKey(c, k, v) == (k :> v) @@ c

\* the decorator of p is free: no call yet, or the last one has returned
CanCall(p) == dec[p].stage \in {"idle", "done"} /\ nreq < MaxCalls

\* the decorator invokes the inner service with the arguments c
InnerCall(p, c, first) ==
    /\ call' = [call EXCEPT ![p] = c]
    /\ Goto(p, first)
    /\ loc' = [loc EXCEPT ![p] = NoLoc]
    /\ res' = [res EXCEPT ![p] = NoRes]
    /\ hist' = [hist EXCEPT ![p] = [NoHist EXCEPT !.pre = db]]

\* the inner service has returned to the decorator of p
InnerDone(p) == dec[p].stage = "inner" /\ pc[p] = "done"

\* the decorator's record of a new call; the record of the last GetPostByID
\* is kept for comparison
NewDec(p, op, u, id) ==
    [NoDec EXCEPT !.op = op, !.user = u, !.id = id,
                  !.prev = IF dec[p].op = "get"
                           THEN [id |-> dec[p].id, ret |-> dec[p].ret,
                                 inner |-> dec[p].inner, hit |-> dec[p].hit,
                                 cachefail |-> dec[p].cachefail,
                                 kept |-> dec[p].kept]
                           ELSE dec[p].prev]

\* dec after the PostCache entry of id was removed: no record of a
\* GetPostByID of that id has its entry kept
Dropped(d, id) ==
    [q \in Procs |->
        [d[q] EXCEPT !.kept = @ /\ d[q].id # id,
                     !.prev.kept = @ /\ d[q].prev.id # id]]

\* title and content of the decorator's UpdatePost requests
DecUpdFields == {[title |-> "t2", content |-> NULL]}


\* tags and media of the decorator's CreatePost requests
DecPayloads == {[tags |-> <<"b">>, media |-> <<Media2>>]}

\* the variables of the store and of the transport, which no step of the
\* decorator itself touches
svars == <<db, seq, now, tx, gor, created, touched, durable, deleted, rpc, mem>>

\* the variables of the inner service's call
ivars == <<pc, call, loc, res, hist>>

\* a store in which user 1 has one post with a media item and a tag, and
\* empty caches
InitC ==
    /\ db = Rows({NewPostRow(1, 1, "t1", NULL, 1)}, AttachRows(1, <<Media1>>, 1),
                 {[id |-> 1, name |-> "a"]}, {[post |-> 1, tag |-> 1]})
    /\ durable = db
    /\ seq = [post |-> 2, media |-> 2, tag |-> 2]
    /\ now = 2
    /\ tx = [p \in Procs |-> NoTx]
    /\ pc = [p \in Procs |-> "idle"]
    /\ call = [p \in Procs |-> NoCall]
    /\ loc = [p \in Procs |-> NoLoc]
    /\ res = [p \in Procs |-> NoRes]
    /\ gor = [p \in Procs |-> "none"]
    /\ hist = [p \in Procs |-> NoHist]
    /\ created = (1 :> [media |-> <<Media1>>, tags |-> <<"a">>])
    /\ touched = {}
    /\ deleted = {}
    /\ nreq = 0
    /\ nfault = 0
    /\ rpc = NoRpc
    /\ pcache = <<>>
    /\ ucache = <<>>
    /\ dec = [p \in Procs |-> NoDec]
    /\ mem = NoMem

\* PostServiceCacheDecorator.CreatePost is called: d.service.CreatePost
Cached_CreatePost(p) ==
    /\ CanCall(p) /\ p \in Writers
    /\ \E u \in Authors, t \in CreateTitles, pl \in DecPayloads :
          /\ InnerCall(p, [op |-> "create", user |-> u, id |-> 0, title |-> t,
                           content |-> NULL, tags |-> pl.tags,
                           media |-> pl.media], "c_user")
          /\ dec' = [dec EXCEPT ![p] = [NewDec(p, "create", u, 0) EXCEPT
                                           !.stage = "inner", !.inner = TRUE]]
    /\ nreq' = nreq + 1
    /\ UNCHANGED <<svars, nfault, pcache, ucache>>

\* PostServiceCacheDecorator.UpdatePost is called: d.service.UpdatePost
Cached_UpdatePost(p) ==
    /\ CanCall(p) /\ p \in Writers
    /\ \E u \in Users, id \in KnownIds, f \in DecUpdFields :
          /\ InnerCall(p, [op |-> "update", user |-> u, id |-> id,
                           title |-> f.title, content |-> f.content,
                           tags |-> <<>>, media |-> <<>>], "u_begin")
          /\ dec' = [dec EXCEPT ![p] = [NewDec(p, "update", u, id) EXCEPT
                                           !.stage = "inner", !.inner = TRUE]]
    /\ nreq' = nreq + 1
    /\ UNCHANGED <<svars, nfault, pcache, ucache>>

\* PostServiceCacheDecorator.DeletePost is called: d.service.DeletePost
Cached_DeletePost(p) ==
    /\ CanCall(p) /\ p \in Writers
    /\ \E u \in Users, id \in KnownIds :
          /\ InnerCall(p, [NoCall EXCEPT !.op = "delete", !.user = u,
                                         !.id = id], "d_begin")
          /\ dec' = [dec EXCEPT ![p] = [NewDec(p, "delete", u, id) EXCEPT
                                           !.stage = "inner", !.inner = TRUE]]
    /\ nreq' = nreq + 1
    /\ UNCHANGED <<svars, nfault, pcache, ucache>>

\* PostServiceCacheDecorator.GetPostByID is called: d.postCache.GetPost comes
\* first
Cached_GetPostByID(p) ==
    /\ CanCall(p) /\ p \in Readers
    /\ \E id \in KnownIds :
          dec' = [dec EXCEPT ![p] = [NewDec(p, "get", 0, id) EXCEPT
                                        !.stage = "lookup"]]
    /\ nreq' = nreq + 1
    /\ UNCHANGED <<svars, ivars, nfault, pcache, ucache>>

\* postCache.GetPost returns the entry: the decorator returns it
Cached_GetHit(p) ==
    /\ dec[p].stage = "lookup"
    /\ getPostKey(dec[p].id) \in DOMAIN pcache
    /\ dec' = [dec EXCEPT ![p].stage = "done", ![p].hit = TRUE,
                          ![p].kept = TRUE,
                          ![p].ret = [err |-> OK,
                                      out |-> DecodePost(
                                                 pcache[getPostKey(dec[p].id)])]]
    /\ UNCHANGED <<svars, ivars, nreq, nfault, pcache, ucache>>

\* postCache.GetPost returns ErrCacheMiss: d.service.GetPostByID
Cached_GetMiss(p) ==
    /\ dec[p].stage = "lookup"
    /\ getPostKey(dec[p].id) \notin DOMAIN pcache
    /\ InnerCall(p, [NoCall EXCEPT !.op = "get", !.id = dec[p].id], "g_post")
    /\ dec' = [dec EXCEPT ![p].stage = "inner", ![p].inner = TRUE]
    /\ UNCHANGED <<svars, nreq, nfault, pcache, ucache>>

\* variant of Cached_GetCacheError: the decorator returns the cache's error
Cached_GetCacheErrorReturned(p) ==
    /\ dec[p].stage = "lookup"
    /\ Fault
    /\ dec' = [dec EXCEPT ![p].stage = "done", ![p].cachefail = TRUE,
                          ![p].ret = [err |-> ErrOpaque, out |-> NoOut]]
    /\ UNCHANGED <<svars, ivars, nreq, pcache, ucache>>

\* postCache.GetPost returns another error: logged, d.service.GetPostByID
Cached_GetCacheError(p) ==
    /\ dec[p].stage = "lookup"
    /\ Fault
    /\ InnerCall(p, [NoCall EXCEPT !.op = "get", !.id = dec[p].id], "g_post")
    /\ dec' = [dec EXCEPT ![p].stage = "inner", ![p].inner = TRUE,
                          ![p].cachefail = TRUE]
    /\ UNCHANGED <<svars, nreq, pcache, ucache>>

\* variant of Cached_InnerError: the key of the post is deleted although the
\* inner service failed
Cached_InnerErrorInvalidates(p) ==
    /\ InnerDone(p)
    /\ res[p].err # OK
    /\ pcache' = WithoutKey(pcache, dec[p].id)
    /\ dec' = [Dropped(dec, dec[p].id) EXCEPT
                  ![p].stage = "done",
                  ![p].deletes = dec[p].deletes + 1,
                  ![p].ret = [err |-> res[p].err, out |-> NoOut]]
    /\ UNCHANGED <<svars, ivars, nreq, nfault, ucache>>

\* the inner service returned an error: the decorator returns it
Cached_InnerError(p) ==
    /\ InnerDone(p)
    /\ res[p].err # OK
    /\ dec' = [dec EXCEPT ![p].stage = "done",
                          ![p].ret = [err |-> res[p].err, out |-> NoOut]]
    /\ UNCHANGED <<svars, ivars, nreq, nfault, pcache, ucache>>

\* variant of Cached_DeleteUser: the author's entry is left in UserCache
Cached_DeleteUserSkipped(p) ==
    /\ dec[p].op = "create"
    /\ InnerDone(p)
    /\ res[p].err = OK
    /\ dec' = [dec EXCEPT ![p].stage = "setpost"]
    /\ UNCHANGED <<svars, ivars, nreq, nfault, pcache, ucache>>

\* CreatePost, after the inner success: d.userCache.DeleteUser(post.AuthorID);
\* its error is logged
Cached_DeleteUser(p) ==
    /\ dec[p].op = "create"
    /\ InnerDone(p)
    /\ res[p].err = OK
    /\ \E ok \in BOOLEAN :
          IF ok
          THEN /\ ucache' = WithoutKey(ucache, call[p].user)
               /\ dec' = [dec EXCEPT ![p].stage = "setpost",
                                     ![p].deletes = @ + 1,
                                     ![p].removed = call[p].user \in DOMAIN ucache]
               /\ UNCHANGED nfault
          ELSE /\ Fault
               /\ dec' = [dec EXCEPT ![p].stage = "setpost",
                                     ![p].deletes = @ + 1,
                                     ![p].cachefail = TRUE]
               /\ UNCHANGED ucache
    /\ UNCHANGED <<svars, ivars, nreq, pcache>>

\* the stage after SetPost: SetUser when the result has an author, else the
\* decorator returns the inner result
AfterSetPost(p) == IF res[p].out.author # NoUser THEN "setuser" ELSE "done"

\* CreatePost and GetPostByID, after the inner success:
\* d.postCache.SetPost(result); its error is logged
Cached_SetPost(p) ==
    /\ \/ dec[p].op = "create" /\ dec[p].stage = "setpost"
       \/ dec[p].op = "get" /\ InnerDone(p) /\ res[p].err = OK
    /\ LET pd == res[p].out
           id == pd.post.id
       IN  \E ok \in BOOLEAN :
              IF ok /\ pd.post # NoPost
              THEN /\ pcache' = WithKey(pcache, getPostKey(id), EncodePost(pd))
                   /\ dec' = [Dropped(dec, id) EXCEPT
                                 ![p].stage = AfterSetPost(p),
                                 ![p].id = id,
                                 ![p].writes = dec[p].writes + 1,
                                 ![p].kept = TRUE,
                                 ![p].ret = res[p]]
                   /\ UNCHANGED nfault
              ELSE /\ Fault
                   /\ dec' = [dec EXCEPT ![p].stage = AfterSetPost(p),
                                         ![p].id = id,
                                         ![p].writes = @ + 1,
                                         ![p].cachefail = TRUE,
                                         ![p].ret = res[p]]
                   /\ UNCHANGED pcache
    /\ UNCHANGED <<svars, ivars, nreq, ucache>>

\* d.userCache.SetUser(result.Author); its error is logged; the decorator
\* returns the inner result
Cached_SetUser(p) ==
    /\ dec[p].stage = "setuser"
    /\ \E ok \in BOOLEAN :
          IF ok
          THEN /\ ucache' = WithKey(ucache, res[p].out.author.id,
                                    res[p].out.author)
               /\ dec' = [dec EXCEPT ![p].stage = "done", ![p].writes = @ + 1]
               /\ UNCHANGED nfault
          ELSE /\ Fault
               /\ dec' = [dec EXCEPT ![p].stage = "done", ![p].writes = @ + 1,
                                     ![p].cachefail = TRUE]
               /\ UNCHANGED ucache
    /\ UNCHANGED <<svars, ivars, nreq, pcache>>

\* variant of Cached_Invalidate: the decorator returns without deleting the
\* key
Cached_InvalidateSkipped(p) ==
    /\ dec[p].op \in {"update", "delete"}
    /\ InnerDone(p)
    /\ res[p].err = OK
    /\ dec' = [dec EXCEPT ![p].stage = "done",
                          ![p].ret = [err |-> OK, out |-> NoOut]]
    /\ UNCHANGED <<svars, ivars, nreq, nfault, pcache, ucache>>

\* UpdatePost and DeletePost, after the inner success:
\* d.postCache.DeletePost(id); its error is logged; the decorator returns nil
Cached_Invalidate(p) ==
    /\ dec[p].op \in {"update", "delete"}
    /\ InnerDone(p)
    /\ res[p].err = OK
    /\ \E ok \in BOOLEAN :
          IF ok
          THEN /\ pcache' = WithoutKey(pcache, getPostKey(dec[p].id))
               /\ dec' = [Dropped(dec, dec[p].id) EXCEPT
                             ![p].stage = "done",
                             ![p].deletes = dec[p].deletes + 1,
                             ![p].removed = dec[p].id \in DOMAIN pcache,
                             ![p].ret = [err |-> OK, out |-> NoOut]]
               /\ UNCHANGED nfault
          ELSE /\ Fault
               /\ dec' = [dec EXCEPT ![p].stage = "done",
                                     ![p].deletes = @ + 1,
                                     ![p].cachefail = TRUE,
                                     ![p].ret = [err |-> OK, out |-> NoOut]]
               /\ UNCHANGED pcache
    /\ UNCHANGED <<svars, ivars, nreq, ucache>>

\* the time to live of a key runs out (postCacheTTL, userCacheTTL)
Cache_Expire ==
    /\ \/ \E id \in DOMAIN pcache :
             /\ pcache' = WithoutKey(pcache, id)
             /\ dec' = Dropped(dec, id)
             /\ UNCHANGED ucache
       \/ \E u \in DOMAIN ucache :
             /\ ucache' = WithoutKey(ucache, u)
             /\ UNCHANGED <<pcache, dec>>
    /\ UNCHANGED <<svars, ivars, nreq, nfault>>

\* the steps of the inner service under the decorator
InnerStep(p) ==
    \/ Begin(p)
    \/ BeginFails(p)
    \/ Commit(p)
    \/ CommitFails(p)
    \/ Rollback(p)
    \/ StatementFails(p)
    \/ CreatePost_GetUser(p)
    \/ CreatePost_Create(p)
    \/ CreatePost_Attach(p)
    \/ CreatePost_GetMedia(p)
    \/ CreatePost_FindByNames(p)
    \/ CreatePost_CreateTag(p)
    \/ CreatePost_TagPost(p)
    \/ UpdatePost_GetByID(p)
    \/ UpdatePost_Update(p)
    \/ DeletePost_GetByID(p)
    \/ DeletePost_GetMedia(p)
    \/ DeletePost_Detach(p)
    \/ DeletePost_FindByPost(p)
    \/ DeletePost_UntagPost(p)
    \/ DeletePost_Delete(p)
    \/ GetPostByID_Post(p)
    \/ GetPostByID_User(p)
    \/ GetPostByID_Media(p)
    \/ GetPostByID_Tags(p)
    \/ GetPostByID_QueryFails(p)

NextC ==
    \/ \E p \in Procs :
          \/ Cached_CreatePost(p)
          \/ Cached_UpdatePost(p)
          \/ Cached_DeletePost(p)
          \/ Cached_GetPostByID(p)
          \/ Cached_GetHit(p)
          \/ Cached_GetMiss(p)
          \/ Cached_GetCacheError(p)
          \/ Cached_InnerError(p)
          \/ Cached_DeleteUser(p)
          \/ Cached_SetPost(p)
          \/ Cached_SetUser(p)
          \/ Cached_Invalidate(p)
          \/ InnerStep(p)
    \/ Cache_Expire

SpecC == InitC /\ [][NextC]_vars


(* ---------------------- ListPosts and its decorator -------------------- *)

\* lower case of the tag names and patterns of the model
ILikeLower(x) == CASE x = "A" -> "a" [] x = "B" -> "b" [] OTHER -> x

\* t.name ILIKE pattern: case-insensitive, "%" matches every name
ILike(name, pattern) == pattern = "%" \/ ILikeLower(name) = ILikeLower(pattern)

\* an optional value of a filter: <<>> is nil, <<x>> is a pointer to x
NoFilter == [author |-> <<>>, after |-> <<>>, before |-> <<>>, tags |-> <<>>,
             limit |-> <<>>, offset |-> <<>>]

\* PostRepository.List: the rows of posts that the WHERE clauses keep
ListMatches(v, f) ==
    {r \in v.posts :
        /\ f.author # <<>> => r.author = f.author[1]
        /\ f.after # <<>> => r.created > f.after[1]
        /\ f.before # <<>> => r.created < f.before[1]
        /\ f.tags # <<>> =>
              \E t \in v.tags, i \in DOMAIN f.tags :
                  /\ [post |-> r.id, tag |-> t.id] \in v.links
                  /\ ILike(t.name, f.tags[i])}

\* ORDER BY p.created_at DESC: every order of the rows S that the clause
\* allows (rows of equal created_at come in any order)
CreatedDesc(S) ==
    {q \in [1..Cardinality(S) -> S] :
        /\ \A i, j \in DOMAIN q : i < j => q[i] # q[j] /\ q[i].created >= q[j].created}

\* LIMIT @limit OFFSET @offset on the ordered rows q
ListWindow(q, f) ==
    LET off == IF f.offset = <<>> THEN 0 ELSE f.offset[1]
        last == IF f.limit = <<>> \/ off + f.limit[1] > Len(q)
                THEN Len(q) ELSE off + f.limit[1]
    IN  SubSeq(q, off + 1, last)

\* SELECT COUNT(DISTINCT p.id) under the same joins and WHERE clauses
ListTotal(v, f) == Cardinality(ListMatches(v, f))

\* userClient.GetUser in ListPosts: the user as the user service has it now
\* (revision 2; a cached copy may be of revision 1)
ListedUser(id) == [id |-> id, rev |-> 2]

\* PostService.ListPosts: the PostDetailed of every listed row
ListDetailed(v, q) ==
    [i \in DOMAIN q |->
        PostDetailed(q[i], ListedUser(q[i].author), GetByPost(v, q[i].id),
                     FindByPost(v, q[i].id))]

\* the filters of the ListPosts calls
ListFilters ==
    {[NoFilter EXCEPT !.author = a, !.limit = l, !.offset = o] :
        a \in {<<>>, <<1>>}, l \in {<<>>, <<2>>}, o \in {<<>>, <<1>>}}

\* distinct author ids of the posts (authorIDs)
AuthorIDs(posts) == {posts[i].post.author : i \in DOMAIN posts}

\* variant of SubstituteAuthor: only the first post of the author gets the
\* cached user
SubstituteFirstAuthor(posts, authorID, user) ==
    [i \in DOMAIN posts |->
        IF posts[i].post.author = authorID
           /\ \A j \in 1..(i - 1) : posts[j].post.author # authorID
        THEN [posts[i] EXCEPT !.author = user] ELSE posts[i]]

\* variant of SubstituteAuthor: every post of the list gets the cached user
SubstituteEveryAuthor(posts, authorID, user) ==
    [i \in DOMAIN posts |-> [posts[i] EXCEPT !.author = user]]

\* the loop on a UserCache hit: post.Author = cachedUser for every post of
\* the author
SubstituteAuthor(posts, authorID, user) ==
    [i \in DOMAIN posts |->
        IF posts[i].post # NoPost /\ posts[i].post.author = authorID
        THEN [posts[i] EXCEPT !.author = user] ELSE posts[i]]

\* the loop on a miss: the author of the first post of authorID that has one
FirstAuthor(posts, authorID) ==
    LET I == {i \in DOMAIN posts : /\ posts[i].post # NoPost
                                   /\ posts[i].post.author = authorID
                                   /\ posts[i].author # NoUser}
    IN  IF I = {} THEN NoUser
        ELSE posts[CHOOSE i \in I : \A j \in I : i <= j].author

\* a store with three posts of two authors, two of them created at the same
\* time, and a UserCache that holds any users in any revision
InitL ==
    /\ db = Rows({NewPostRow(1, 1, "t1", NULL, 1), NewPostRow(2, 1, "t1", NULL, 2),
                  NewPostRow(3, 2, "t1", NULL, 2)},
                 AttachRows(1, <<Media1, Media2>>, 1),
                 {[id |-> 1, name |-> "a"]}, {[post |-> 1, tag |-> 1]})
    /\ durable = db
    /\ seq = [post |-> 4, media |-> 3, tag |-> 2]
    /\ now = 3
    /\ tx = [p \in Procs |-> NoTx]
    /\ pc = [p \in Procs |-> "idle"]
    /\ call = [p \in Procs |-> NoCall]
    /\ loc = [p \in Procs |-> NoLoc]
    /\ res = [p \in Procs |-> NoRes]
    /\ gor = [p \in Procs |-> "none"]
    /\ hist = [p \in Procs |-> NoHist]
    /\ created = <<>>
    /\ touched = {}
    /\ deleted = {}
    /\ nreq = 0
    /\ nfault = 0
    /\ rpc = NoRpc
    /\ pcache = <<>>
    /\ \E S \in SUBSET Users :
          ucache \in [S -> {[id |-> u, rev |-> r] : u \in Users, r \in {1, 2}}]
    /\ \A u \in DOMAIN ucache : ucache[u].id = u
    /\ dec = [p \in Procs |-> NoDec]
    /\ mem = NoMem

\* PostServiceCacheDecorator.ListPosts is called and d.service.ListPosts
\* returns its posts and total
Cached_ListPosts(p) ==
    /\ CanCall(p) /\ p \in Readers
    /\ \E f \in ListFilters : \E q \in CreatedDesc(ListMatches(db, f)) :
          LET posts == ListDetailed(db, ListWindow(q, f))
          IN  dec' = [dec EXCEPT ![p] = [NoDec EXCEPT
                         !.op = "list", !.stage = "authors", !.inner = TRUE,
                         !.list = posts, !.orig = posts,
                         !.total = ListTotal(db, f),
                         !.todo = AuthorIDs(posts)]]
    /\ nreq' = nreq + 1
    /\ UNCHANGED <<svars, ivars, nfault, pcache, ucache>>

\* d.service.ListPosts returns an error: the decorator returns nil, 0, err
Cached_ListFails(p) ==
    /\ CanCall(p) /\ p \in Readers
    /\ Fault
    /\ \E e \in {ErrDatabaseQuery, ErrUserNotFound} :
          dec' = [dec EXCEPT ![p] = [NoDec EXCEPT
                     !.op = "list", !.stage = "done", !.inner = TRUE,
                     !.ret = [err |-> e, out |-> NoOut]]]
    /\ nreq' = nreq + 1
    /\ UNCHANGED <<svars, ivars, pcache, ucache>>

\* one turn of the loop over authorIDs, UserCache.GetUser returning the
\* cached user: it is substituted into the posts of the author
Cached_ListHit(p) ==
    /\ dec[p].op = "list" /\ dec[p].stage = "authors"
    /\ \E a \in dec[p].todo :
          /\ a \in DOMAIN ucache
          /\ dec' = [dec EXCEPT
                        ![p].todo = @ \ {a},
                        ![p].hits = (a :> ucache[a]) @@ @,
                        ![p].list = SubstituteAuthor(@, a, ucache[a])]
    /\ UNCHANGED <<svars, ivars, nreq, nfault, pcache, ucache>>

\* one turn of the loop, UserCache.GetUser returning a miss or another error:
\* SetUser of the author the inner service returned; its error is logged
Cached_ListMiss(p) ==
    /\ dec[p].op = "list" /\ dec[p].stage = "authors"
    /\ \E a \in dec[p].todo, geterr \in BOOLEAN, ok \in BOOLEAN :
          LET user == FirstAuthor(dec[p].list, a)
              n == (IF geterr THEN 1 ELSE 0) + (IF ok THEN 0 ELSE 1)
          IN  /\ geterr \/ a \notin DOMAIN ucache
              /\ nfault + n <= MaxFaults
              /\ nfault' = nfault + n
              /\ IF ok /\ user # NoUser
                 THEN /\ ucache' = WithKey(ucache, user.id, user)
                      /\ dec' = [dec EXCEPT ![p].todo = @ \ {a},
                                            ![p].writes = @ + 1,
                                            ![p].cachefail = @ \/ geterr,
                                            ![p].sets = (a :> user) @@ @]
                 ELSE /\ UNCHANGED ucache
                      /\ dec' = [dec EXCEPT ![p].todo = @ \ {a},
                                            ![p].cachefail = TRUE]
    /\ UNCHANGED <<svars, ivars, nreq, pcache>>

\* the loop is over: return posts, total, nil
Cached_ListReturn(p) ==
    /\ dec[p].op = "list" /\ dec[p].stage = "authors"
    /\ dec[p].todo = {}
    /\ dec' = [dec EXCEPT ![p].stage = "done"]
    /\ UNCHANGED <<svars, ivars, nreq, nfault, pcache, ucache>>

\* the time to live of a user's key runs out (userCacheTTL)
Cache_ExpireUser ==
    /\ \E u \in DOMAIN ucache : ucache' = WithoutKey(ucache, u)
    /\ UNCHANGED <<svars, ivars, nreq, nfault, pcache, dec>>

\* another request caches a user, in the revision it was given
Cache_SetUser ==
    /\ \E u \in Users, r \in {1, 2} :
          ucache' = WithKey(ucache, u, [id |-> u, rev |-> r])
    /\ UNCHANGED <<svars, ivars, nreq, nfault, pcache, dec>>

NextL ==
    \/ \E p \in Procs :
          \/ Cached_ListPosts(p)
          \/ Cached_ListFails(p)
          \/ Cached_ListHit(p)
          \/ Cached_ListMiss(p)
          \/ Cached_ListReturn(p)
    \/ Cache_ExpireUser
    \/ Cache_SetUser

SpecL == InitL /\ [][NextL]_vars


(* ------------- inbound validation of CreatePost and UpdatePost --------- *)

\* media items of a request: url is "url" when URL-shaped
WireMedia(position) == [url |-> "url", type |-> "image", position |-> position]

\* media lists of the requests: none, one item in and out of bounds, a bad
\* url, and ten items in and out of bounds
WireMediaLists ==
    {<<>>, <<WireMedia(1)>>, <<WireMedia(42)>>, <<WireMedia(0)>>,
     <<WireMedia(2), WireMedia(42)>>,
     <<[WireMedia(1) EXCEPT !.url = "invalid-url"]>>,
     [i \in 1..10 |-> WireMedia(IF i = 10 THEN 9 ELSE i)],
     [i \in 1..10 |-> WireMedia(42)]}

\* the requests: strings are given by their lengths (0: not supplied)
WireRequests ==
    [method : {"CreatePost", "UpdatePost"}, id : {0, 1}, author : {1},
     title : {0, 2, 3, 255, 256}, content : {0, 9, 10},
     tags : {<<>>, <<1>>, <<2, 50>>, <<2, 51>>},
     media : WireMediaLists]

\* MediaInputInternal: URL required,url; Type required,oneof=image video;
\* Position gte=1,lte=9
MediaInputValid(m) ==
    /\ m.url = "url"
    /\ m.type \in {"image", "video"}
    /\ m.position >= 1 /\ m.position <= 9

\* CreatePostRequestInternal under validate.Struct
CreateRequestValid(r) ==
    /\ r.author # 0
    /\ r.title >= 3 /\ r.title <= 255
    /\ r.content >= 10
    /\ \A i \in DOMAIN r.tags : r.tags[i] >= 2 /\ r.tags[i] <= 50
    /\ Len(r.media) <= 9
    /\ \A i \in DOMAIN r.media : MediaInputValid(r.media[i])

\* UpdatePostRequestInternal under validate.Struct: Title, Content and Tags
\* carry no rule but omitempty, Media only dives
UpdateRequestValid(r) ==
    /\ r.id > 0
    /\ \A i \in DOMAIN r.media : MediaInputValid(r.media[i])

RequestValid(r) ==
    IF r.method = "CreatePost" THEN CreateRequestValid(r) ELSE UpdateRequestValid(r)

RECURSIVE NormalizeFrom(_, _)
\* the loop that builds dtoMediaItems, from the item at (one-based) index i:
\* a position out of bounds becomes the index, and the item is skipped when
\* the index exceeds MaxMediaPosition
NormalizeFrom(media, i) ==
    IF i > Len(media) THEN <<>>
    ELSE LET m == media[i]
             out == m.position < MinMediaPosition \/ m.position > MaxMediaPosition
         IN  IF out /\ i > MaxMediaPosition THEN NormalizeFrom(media, i + 1)
             ELSE <<[m EXCEPT !.position = IF out THEN i ELSE @]>>
                  \o NormalizeFrom(media, i + 1)

NormalizeMedia(media) == NormalizeFrom(media, 1)

\* a CreatePost or UpdatePost RPC arrives
Wire_Receive ==
    /\ rpc.stage = "idle"
    /\ \E r \in WireRequests :
          rpc' = [stage |-> "received", req |-> r, called |-> FALSE,
                  status |-> "none", dto |-> <<>>]
    /\ UNCHANGED <<db, seq, now, tx, pc, call, loc, res, gor, hist, created, touched,
                   durable, deleted, nreq, nfault>>
    /\ UNCHANGED cvars

\* h.validate.Struct fails: InvalidArgument, the service is not called
Wire_Reject ==
    /\ rpc.stage = "received"
    /\ ~RequestValid(rpc.req)
    /\ rpc' = [rpc EXCEPT !.stage = "answered", !.status = "InvalidArgument"]
    /\ UNCHANGED <<db, seq, now, tx, pc, call, loc, res, gor, hist, created, touched,
                   durable, deleted, nreq, nfault>>
    /\ UNCHANGED cvars

\* validation passes: the DTO is built and h.postService is called with it
Wire_Forward ==
    /\ rpc.stage = "received"
    /\ RequestValid(rpc.req)
    /\ rpc' = [rpc EXCEPT !.stage = "forwarded", !.called = TRUE,
                          !.dto = NormalizeMedia(rpc.req.media)]
    /\ UNCHANGED <<db, seq, now, tx, pc, call, loc, res, gor, hist, created, touched,
                   durable, deleted, nreq, nfault>>
    /\ UNCHANGED cvars

NextV ==
    \/ Wire_Receive
    \/ Wire_Reject
    \/ Wire_Forward

\* the CreatePost and UpdatePost handlers up to the call of the service
SpecV == Init /\ [][NextV]_vars

(* ------------- the tag repositories, called one at a time ------------- *)

\* the post ids and tag-name lists the repositories are called with
RepoPosts == {1, 2}
RepoNames == {<<>>, <<"a">>, <<"b">>, <<"a", "b">>}

\* a repository call by p begins: what was called, and the rows and maps
\* before it
RepoCall(p, impl, op, id, names) ==
    /\ nreq < MaxOps
    /\ nreq' = nreq + 1
    /\ call' = [call EXCEPT ![p] = [impl |-> impl, op |-> op, id |-> id,
                                    tags |-> names, pre |-> mem]]
    /\ hist' = [hist EXCEPT ![p] = [NoHist EXCEPT !.pre = db]]

\* the repository call of p returns err
RepoReturn(p, err) == res' = [res EXCEPT ![p] = [err |-> err, out |-> NoOut]]

\* PostRepository.Create on the pool: INSERT INTO posts ... RETURNING id
Post_Create(p) ==
    /\ RepoCall(p, "postgres", "Create", seq.post, <<>>)
    /\ db' = [db EXCEPT !.posts = @ \cup {NewPostRow(seq.post, 1, "t", "c", now)}]
    /\ seq' = [seq EXCEPT !.post = @ + 1]
    /\ RepoReturn(p, OK)
    /\ UNCHANGED <<now, tx, pc, loc, gor, created, touched, durable, deleted,
                   nfault, rpc>>
    /\ UNCHANGED cvars

\* PostRepository.Delete on the pool: the post's media and links go with it
Post_Delete(p, id) ==
    /\ RepoCall(p, "postgres", "Delete", id, <<>>)
    /\ LET gone == DeleteRows(db, id)
       IN  /\ db' = [t \in DOMAIN db |-> db[t] \ gone[t]]
           /\ RepoReturn(p, IF gone.posts = {} THEN ErrPostNotFound ELSE OK)
    /\ UNCHANGED <<seq, now, tx, pc, loc, gor, created, touched, durable, deleted,
                   nfault, rpc>>
    /\ UNCHANGED cvars

\* TagRepository.Create on the pool: INSERT ... ON CONFLICT (name) DO NOTHING,
\* then FindByNames when no row came back
Tag_Create(p, name) ==
    /\ RepoCall(p, "postgres", "CreateTag", 0, <<name>>)
    /\ IF TagIdOf(db, name) # 0
       THEN UNCHANGED <<db, seq>>
       ELSE /\ db' = [db EXCEPT !.tags = @ \cup {[id |-> seq.tag, name |-> name]}]
            /\ seq' = [seq EXCEPT !.tag = @ + 1]
    /\ RepoReturn(p, OK)
    /\ UNCHANGED <<now, tx, pc, loc, gor, created, touched, durable, deleted,
                   nfault, rpc>>
    /\ UNCHANGED cvars

\* TagPost, UntagPost, ReplacePostTags: db.Exec("SELECT 1 FROM posts WHERE id =
\* @post_id") returns no error whether or not the row exists (Exec never
\* returns pgx.ErrNoRows), so the check passes
PostCheck(v, postID) == OK

\* TagRepository.TagPost on the pool.  The inserts of the batch run in one
\* implicit transaction: after a failed insert none of them is kept.
Tag_TagPost(p, id, names) ==
    /\ RepoCall(p, "postgres", "TagPost", id, names)
    /\ IF names = <<>> THEN db' = db /\ RepoReturn(p, OK)
       ELSE IF PostCheck(db, id) # OK THEN db' = db /\ RepoReturn(p, PostCheck(db, id))
       ELSE LET r == InsertLinks(db, db.links, id, names)
            IN  /\ db' = [db EXCEPT !.links = IF r.code = OK THEN @ \cup r.links ELSE @]
                /\ RepoReturn(p, TagPostErr(r.code))
    /\ UNCHANGED <<seq, now, tx, pc, loc, gor, created, touched, durable, deleted,
                   nfault, rpc>>
    /\ UNCHANGED cvars

\* TagRepository.UntagPost on the pool: the DELETE statements never fail on a
\* post or a tag that is not there
Tag_UntagPost(p, id, names) ==
    /\ RepoCall(p, "postgres", "UntagPost", id, names)
    /\ IF names = <<>> THEN db' = db /\ RepoReturn(p, OK)
       ELSE IF PostCheck(db, id) # OK THEN db' = db /\ RepoReturn(p, PostCheck(db, id))
       ELSE /\ db' = [db EXCEPT !.links = @ \ UntagRows(db, id, names)]
            /\ RepoReturn(p, OK)
    /\ UNCHANGED <<seq, now, tx, pc, loc, gor, created, touched, durable, deleted,
                   nfault, rpc>>
    /\ UNCHANGED cvars

\* TagRepository.ReplacePostTags on the pool: DELETE FROM posts_tags WHERE
\* post_id = @post_id, committed on its own, then the batch of inserts
Tag_ReplacePostTags(p, id, names) ==
    /\ RepoCall(p, "postgres", "ReplacePostTags", id, names)
    /\ IF PostCheck(db, id) # OK THEN db' = db /\ RepoReturn(p, PostCheck(db, id))
       ELSE LET kept == {l \in db.links : l.post # id}
                r == InsertLinks(db, kept, id, names)
            IN  /\ db' = [db EXCEPT !.links = IF r.code = OK THEN kept \cup r.links
                                                ELSE kept]
                /\ RepoReturn(p, ReplacePostTagsErr(r.code))
    /\ UNCHANGED <<seq, now, tx, pc, loc, gor, created, touched, durable, deleted,
                   nfault, rpc>>
    /\ UNCHANGED cvars

\* variant of DeleteUnused: every tag is deleted
DeleteUnusedAll(tags, links) == {}

\* TagRepository.DeleteUnused: DELETE FROM tags WHERE id NOT IN (SELECT
\* DISTINCT tag_id FROM posts_tags); the tags that are left
DeleteUnused(tags, links) == {t \in tags : t.id \in {l.tag : l \in links}}

Tag_DeleteUnused(p) ==
    /\ RepoCall(p, "postgres", "DeleteUnused", 0, <<>>)
    /\ db' = [db EXCEPT !.tags = DeleteUnused(db.tags, db.links)]
    /\ RepoReturn(p, OK)
    /\ UNCHANGED <<seq, now, tx, pc, loc, gor, created, touched, durable, deleted,
                   nfault, rpc>>
    /\ UNCHANGED cvars

\* TagRepository.SimulatePostExists (memory)
MemTag_SimulatePostExists(p, id, exists) ==
    /\ RepoCall(p, "memory", "SimulatePostExists", id, <<>>)
    /\ mem' = [mem EXCEPT !.postExists = IF exists THEN @ \cup {id} ELSE @ \ {id}]
    /\ RepoReturn(p, OK)
    /\ UNCHANGED <<db, seq, now, tx, pc, loc, gor, created, touched, durable,
                   deleted, nfault, rpc, pcache, ucache, dec>>

\* tagsByName[name] (memory), 0 when there is none
MemTagID(m, name) ==
    IF \E t \in m.tags : t.name = name
    THEN (CHOOSE t \in m.tags : t.name = name).id ELSE 0

\* variant of MemEnsureTag: a tag is made whether or not the name is stored
MemEnsureTagAlways(m, name) ==
    [m EXCEPT !.tags = @ \cup {[id |-> m.tagNextID, name |-> name]},
              !.tagNextID = @ + 1]

\* the maps after a tag of that name is there (memory): a new tag takes nextID
MemEnsureTag(m, name) ==
    IF MemTagID(m, name) # 0 THEN m
    ELSE [m EXCEPT !.tags = @ \cup {[id |-> m.tagNextID, name |-> name]},
                   !.tagNextID = @ + 1]

RECURSIVE MemLinkAll(_, _, _)
\* the loop of TagPost and ReplacePostTags (memory): every name gets its tag,
\* created when missing, and the tag is linked to the post
MemLinkAll(m, postID, names) ==
    IF names = <<>> THEN m
    ELSE LET m1 == MemEnsureTag(m, Head(names))
             l  == [post |-> postID, tag |-> MemTagID(m1, Head(names))]
         IN  MemLinkAll([m1 EXCEPT !.links = @ \cup {l}], postID, Tail(names))

\* TagRepository.Create (memory)
MemTag_Create(p, name) ==
    /\ RepoCall(p, "memory", "CreateTag", 0, <<name>>)
    /\ mem' = MemEnsureTag(mem, name)
    /\ RepoReturn(p, OK)
    /\ UNCHANGED <<db, seq, now, tx, pc, loc, gor, created, touched, durable,
                   deleted, nfault, rpc, pcache, ucache, dec>>

\* TagRepository.TagPost (memory)
MemTag_TagPost(p, id, names) ==
    /\ RepoCall(p, "memory", "TagPost", id, names)
    /\ IF names = <<>> THEN mem' = mem /\ RepoReturn(p, OK)
       ELSE IF id \notin mem.postExists THEN mem' = mem /\ RepoReturn(p, ErrPostNotFound)
       ELSE mem' = MemLinkAll(mem, id, names) /\ RepoReturn(p, OK)
    /\ UNCHANGED <<db, seq, now, tx, pc, loc, gor, created, touched, durable,
                   deleted, nfault, rpc, pcache, ucache, dec>>

\* TagRepository.UntagPost (memory)
MemTag_UntagPost(p, id, names) ==
    /\ RepoCall(p, "memory", "UntagPost", id, names)
    /\ IF names = <<>> THEN mem' = mem /\ RepoReturn(p, OK)
       ELSE IF id \notin mem.postExists THEN mem' = mem /\ RepoReturn(p, ErrPostNotFound)
       ELSE /\ mem' = [mem EXCEPT !.links =
                          {l \in @ : ~(l.post = id /\ \E n \in Range(names) :
                                                          l.tag = MemTagID(mem, n))}]
            /\ RepoReturn(p, OK)
    /\ UNCHANGED <<db, seq, now, tx, pc, loc, gor, created, touched, durable,
                   deleted, nfault, rpc, pcache, ucache, dec>>

\* TagRepository.ReplacePostTags (memory)
MemTag_ReplacePostTags(p, id, names) ==
    /\ RepoCall(p, "memory", "ReplacePostTags", id, names)
    /\ IF id \notin mem.postExists THEN mem' = mem /\ RepoReturn(p, ErrPostNotFound)
       ELSE /\ mem' = MemLinkAll([mem EXCEPT !.links = {l \in @ : l.post # id}], id, names)
            /\ RepoReturn(p, OK)
    /\ UNCHANGED <<db, seq, now, tx, pc, loc, gor, created, touched, durable,
                   deleted, nfault, rpc, pcache, ucache, dec>>

\* TagRepository.DeleteUnused (memory): the tags whose postsByTagID map is
\* empty are removed from tags and tagsByName
MemTag_DeleteUnused(p) ==
    /\ RepoCall(p, "memory", "DeleteUnused", 0, <<>>)
    /\ mem' = [mem EXCEPT !.tags = {t \in @ : \E l \in mem.links : l.tag = t.id}]
    /\ RepoReturn(p, OK)
    /\ UNCHANGED <<db, seq, now, tx, pc, loc, gor, created, touched, durable,
                   deleted, nfault, rpc, pcache, ucache, dec>>

NextR ==
    \E p \in Writers :
        \/ Post_Create(p)
        \/ \E id \in RepoPosts : Post_Delete(p, id)
        \/ \E n \in TagNames : Tag_Create(p, n)
        \/ \E id \in RepoPosts, names \in RepoNames : Tag_TagPost(p, id, names)
        \/ \E id \in RepoPosts, names \in RepoNames : Tag_UntagPost(p, id, names)
        \/ \E id \in RepoPosts, names \in RepoNames : Tag_ReplacePostTags(p, id, names)
        \/ Tag_DeleteUnused(p)
        \/ \E id \in RepoPosts, e \in BOOLEAN : MemTag_SimulatePostExists(p, id, e)
        \/ \E n \in TagNames : MemTag_Create(p, n)
        \/ \E id \in RepoPosts, names \in RepoNames : MemTag_TagPost(p, id, names)
        \/ \E id \in RepoPosts, names \in RepoNames : MemTag_UntagPost(p, id, names)
        \/ \E id \in RepoPosts, names \in RepoNames : MemTag_ReplacePostTags(p, id, names)
        \/ MemTag_DeleteUnused(p)

\* the store starts with post 1, its media item and its tag "a"; the maps of
\* the in-memory repositories start empty
SpecR == InitC /\ [][NextR]_vars

(* ------------------ PostRepository.List, called directly --------------- *)

\* the WHERE clauses on the columns of posts
ListWhere(r, f) ==
    /\ f.author # <<>> => r.author = f.author[1]
    /\ f.after # <<>> => r.created > f.after[1]
    /\ f.before # <<>> => r.created < f.before[1]

\* FROM posts p [JOIN posts_tags pt JOIN tags t] WHERE ...: the joined rows,
\* one per post without tag names in the filter (tag 0), one per matching
\* tag of the post with them
ListJoin(v, f) ==
    IF f.tags = <<>> THEN {<<r, 0>> : r \in {x \in v.posts : ListWhere(x, f)}}
    ELSE {<<r, t.id>> : r \in v.posts, t \in v.tags} \cap
         {x \in v.posts \X {t.id : t \in v.tags} :
             /\ [post |-> x[1].id, tag |-> x[2]] \in v.links
             /\ ListWhere(x[1], f)
             /\ \E t \in v.tags, i \in DOMAIN f.tags :
                    t.id = x[2] /\ ILike(t.name, f.tags[i])}

\* variant of ListRows: every joined row is kept
ListRowsAll(J) == J

\* SELECT DISTINCT p.id, p.author_id, ...: one row per distinct post
ListRows(J) == {<<x[1], 0>> : x \in J}

RECURSIVE JoinDesc(_)
\* ORDER BY p.created_at DESC on the selected rows: every order the clause
\* allows
JoinDesc(S) ==
    IF S = {} THEN {<<>>}
    ELSE UNION {{<<x>> \o q : q \in JoinDesc(S \ {x})} :
                x \in {y \in S : \A z \in S : y[1].created >= z[1].created}}

\* the posts that the first query of List can return
ListSelect(v, f) ==
    {LET w == ListWindow(q, f) IN [i \in DOMAIN w |-> w[i][1]] :
        q \in JoinDesc(ListRows(ListJoin(v, f)))}

\* SELECT COUNT(DISTINCT p.id) with the joins and WHERE clauses of the first
\* query
ListCount(v, f) == Cardinality({x[1].id : x \in ListJoin(v, f)})

\* PostRepository.List (memory): the posts the loop keeps; CreatedBefore keeps
\* a post created at that time, TagNames is not looked at
MemListMatches(posts, f) ==
    {r \in posts :
        /\ f.author # <<>> => r.author = f.author[1]
        /\ f.after # <<>> => r.created > f.after[1]
        /\ f.before # <<>> => ~(r.created > f.before[1])}

\* the filters of the direct List calls
RepoFilters ==
    [author : {<<>>, <<1>>}, after : {<<>>, <<1>>}, before : {<<>>, <<3>>},
     tags : {<<>>, <<"A", "b">>}, limit : {<<>>, <<2>>},
     offset : {<<>>, <<1>>}]

\* three posts of two authors, two of them created at the same time; post 1
\* has the tags "a" and "b", post 2 the tag "a"; the in-memory post
\* repository holds the same posts
InitP ==
    /\ db = Rows({NewPostRow(1, 1, "t1", NULL, 1), NewPostRow(2, 1, "t1", NULL, 2),
                  NewPostRow(3, 2, "t1", NULL, 2)}, {},
                 {[id |-> 1, name |-> "a"], [id |-> 2, name |-> "b"]},
                 {[post |-> 1, tag |-> 1], [post |-> 1, tag |-> 2],
                  [post |-> 2, tag |-> 1]})
    /\ durable = db
    /\ seq = [post |-> 4, media |-> 1, tag |-> 3]
    /\ now = 2
    /\ tx = [p \in Procs |-> NoTx]
    /\ pc = [p \in Procs |-> "idle"]
    /\ call = [p \in Procs |-> NoCall]
    /\ loc = [p \in Procs |-> NoLoc]
    /\ res = [p \in Procs |-> NoRes]
    /\ gor = [p \in Procs |-> "none"]
    /\ hist = [p \in Procs |-> NoHist]
    /\ created = <<>>
    /\ touched = {}
    /\ deleted = {}
    /\ nreq = 0
    /\ nfault = 0
    /\ rpc = NoRpc
    /\ pcache = <<>>
    /\ ucache = <<>>
    /\ dec = [p \in Procs |-> NoDec]
    /\ mem = [NoMem EXCEPT !.posts = db.posts, !.postNextID = 4]

\* PostRepository.Create on the pool by an author, at the current time or
\* later
Post_CreateBy(p, author, tick) ==
    /\ Cardinality(db.posts) < MaxPosts /\ nreq < MaxCalls
    /\ RepoCall(p, "postgres", "Create", seq.post, <<>>)
    /\ db' = [db EXCEPT !.posts = @ \cup {NewPostRow(seq.post, author, "t", "c", now + tick)}]
    /\ seq' = [seq EXCEPT !.post = @ + 1]
    /\ now' = now + tick
    /\ RepoReturn(p, OK)
    /\ UNCHANGED <<tx, pc, loc, gor, created, touched, durable, deleted, nfault, rpc>>
    /\ UNCHANGED cvars

\* PostRepository.Create (memory)
MemPost_Create(p, author, tick) ==
    /\ Cardinality(mem.posts) < MaxPosts /\ nreq < MaxCalls
    /\ RepoCall(p, "memory", "Create", mem.postNextID, <<>>)
    /\ mem' = [mem EXCEPT !.posts = @ \cup {NewPostRow(mem.postNextID, author, "t", "c",
                                                       now + tick)},
                          !.postNextID = @ + 1]
    /\ now' = now + tick
    /\ RepoReturn(p, OK)
    /\ UNCHANGED <<db, seq, tx, pc, loc, gor, created, touched, durable, deleted,
                   nfault, rpc, pcache, ucache, dec>>

\* PostRepository.List, first query: the rows of the window
List_Query(p, f) ==
    /\ pc[p] = "idle"
    /\ \E q \in ListSelect(db, f) :
           loc' = [loc EXCEPT ![p] = [posts |-> q]]
    /\ call' = [call EXCEPT ![p] = [impl |-> "postgres", op |-> "List", filter |-> f,
                                    pre |-> db, counted |-> db]]
    /\ Goto(p, "l_count")
    /\ UNCHANGED <<db, seq, now, tx, res, gor, hist, created, touched, durable,
                   deleted, nreq, nfault, rpc>>
    /\ UNCHANGED cvars

\* PostRepository.List, second query: the count, on the rows as they are now
List_Count(p) ==
    /\ pc[p] = "l_count"
    /\ call' = [call EXCEPT ![p].counted = db]
    /\ res' = [res EXCEPT ![p] = [err |-> OK,
                                  out |-> [posts |-> loc[p].posts,
                                           total |-> ListCount(db, call[p].filter)]]]
    /\ Goto(p, "done")
    /\ UNCHANGED <<db, seq, now, tx, loc, gor, hist, created, touched, durable,
                   deleted, nreq, nfault, rpc>>
    /\ UNCHANGED cvars

\* PostRepository.List (memory), under the read lock
MemPost_List(p, f) ==
    /\ pc[p] = "idle"
    /\ LET M == MemListMatches(mem.posts, f)
       IN  \E q \in CreatedDesc(M) :
               res' = [res EXCEPT ![p] = [err |-> OK,
                                          out |-> [posts |-> ListWindow(q, f),
                                                   total |-> Cardinality(M)]]]
    /\ call' = [call EXCEPT ![p] = [impl |-> "memory", op |-> "List", filter |-> f,
                                    pre |-> mem.posts, counted |-> mem.posts]]
    /\ Goto(p, "done")
    /\ UNCHANGED <<db, seq, now, tx, loc, gor, hist, created, touched, durable,
                   deleted, nreq, nfault, rpc>>
    /\ UNCHANGED cvars

\* PostRepository.Delete by another caller, before or while List runs
List_PostDeleted(p, id) == nreq < MaxCalls /\ Post_Delete(p, id)

\* TagRepository.TagPost by another caller, before or while List runs
List_PostTagged(p, id) == nreq < MaxCalls /\ Tag_TagPost(p, id, <<"b">>)

NextP ==
    \/ \E p \in Writers :
        \/ \E a \in Authors, tick \in {0, 1} : Post_CreateBy(p, a, tick)
        \/ \E id \in RepoPosts : List_PostDeleted(p, id)
        \/ \E id \in RepoPosts : List_PostTagged(p, id)
        \/ \E a \in Authors, tick \in {0, 1} : MemPost_Create(p, a, tick)
    \/ \E p \in Readers :
        \/ \E f \in RepoFilters : List_Query(p, f)
        \/ List_Count(p)
        \/ \E f \in RepoFilters : MemPost_List(p, f)

SpecP == InitP /\ [][NextP]_vars

(* ------------- the media repositories, called one at a time ------------ *)

\* the post ids, media lists, position maps and id lists of the calls; post 3
\* does not exist
MediaPosts == {1, 2, 3}
MediaLists == {<<Media1>>, <<Media1, Media2>>}
NewPositions == {(id :> position) : id \in {1, 2}, position \in {1, 3}}
MediaIDs == {<<1>>, <<2>>}

\* posts 1 and 2 exist and have no media, in the store and for the in-memory
\* media repository (SimulatePostExists)
InitM ==
    /\ db = Rows({NewPostRow(1, 1, "t1", NULL, 1), NewPostRow(2, 1, "t1", NULL, 1)},
                 {}, {}, {})
    /\ durable = db
    /\ seq = [post |-> 3, media |-> 1, tag |-> 1]
    /\ now = 2
    /\ tx = [p \in Procs |-> NoTx]
    /\ pc = [p \in Procs |-> "idle"]
    /\ call = [p \in Procs |-> NoCall]
    /\ loc = [p \in Procs |-> NoLoc]
    /\ res = [p \in Procs |-> NoRes]
    /\ gor = [p \in Procs |-> "none"]
    /\ hist = [p \in Procs |-> NoHist]
    /\ created = <<>>
    /\ touched = {}
    /\ deleted = {}
    /\ nreq = 0
    /\ nfault = 0
    /\ rpc = NoRpc
    /\ pcache = <<>>
    /\ ucache = <<>>
    /\ dec = [p \in Procs |-> NoDec]
    /\ mem = [NoMem EXCEPT !.mediaPostExists = {1, 2}]

\* MediaRepository.Attach on the pool
Media_Attach(p, postID, media) ==
    /\ Cardinality(db.media) + Len(media) <= MaxMedia
    /\ RepoCall(p, "postgres", "Attach", postID, <<>>)
    /\ IF postID \notin PostIds(db)
       THEN UNCHANGED <<db, seq>> /\ RepoReturn(p, ErrPostNotFound)
       ELSE /\ db' = [db EXCEPT !.media = @ \cup AttachRows(postID, media, seq.media)]
            /\ seq' = [seq EXCEPT !.media = @ + Len(media)]
            /\ RepoReturn(p, OK)
    /\ UNCHANGED <<now, tx, pc, loc, gor, created, touched, durable, deleted,
                   nfault, rpc>>
    /\ UNCHANGED cvars

\* MediaRepository.Reorder on the pool: UPDATE post_media SET position =
\* @position WHERE post_id = @post_id AND id = @id, for every entry of the map
Media_Reorder(p, postID, newPositions) ==
    /\ RepoCall(p, "postgres", "Reorder", postID, <<>>)
    /\ db' = [db EXCEPT !.media =
                 {IF m.post = postID /\ m.id \in DOMAIN newPositions
                  THEN [m EXCEPT !.position = newPositions[m.id]] ELSE m : m \in @}]
    /\ RepoReturn(p, OK)
    /\ UNCHANGED <<seq, now, tx, pc, loc, gor, created, touched, durable, deleted,
                   nfault, rpc>>
    /\ UNCHANGED cvars

\* MediaRepository.Detach on the pool: DELETE FROM post_media WHERE id = ANY(@ids)
Media_Detach(p, mediaIDs) ==
    /\ RepoCall(p, "postgres", "Detach", 0, <<>>)
    /\ db' = [db EXCEPT !.media = {m \in @ : m.id \notin Range(mediaIDs)}]
    /\ RepoReturn(p, OK)
    /\ UNCHANGED <<seq, now, tx, pc, loc, gor, created, touched, durable, deleted,
                   nfault, rpc>>
    /\ UNCHANGED cvars

RECURSIVE MemSortedOrders(_, _)
\* every order of the ids S in which the positions byID never decrease
MemSortedOrders(S, byID) ==
    IF S = {} THEN {<<>>}
    ELSE UNION {{<<x>> \o q : q \in MemSortedOrders(S \ {x}, byID)} :
                x \in {y \in S : \A z \in S : byID[y] <= byID[z]}}

\* sort.Slice of the list l by the positions byID: every order of l with
\* non-decreasing positions (the sort is not stable)
MemSortByPosition(l, byID) == MemSortedOrders(Range(l), byID)

\* mediaByPostID[postID] (memory), empty when the post has no entry
MemMediaList(m, postID) ==
    IF postID \in DOMAIN m.mediaByPostID THEN m.mediaByPostID[postID] ELSE <<>>

\* MediaRepository.GetByPost (memory): copies of the list's items, in the
\* order of the list
MemGetByPost(m, postID) ==
    LET l == MemMediaList(m, postID)
    IN  [i \in DOMAIN l |-> [id |-> l[i], position |-> m.mediaByID[l[i]]]]

\* MediaRepository.Attach (memory): the items are appended to the post's list
\* and the list is sorted by position
MemMedia_Attach(p, postID, media) ==
    /\ Cardinality(DOMAIN mem.mediaByID) + Len(media) <= MaxMedia
    /\ RepoCall(p, "memory", "Attach", postID, <<>>)
    /\ IF postID \notin mem.mediaPostExists
       THEN mem' = mem /\ RepoReturn(p, ErrPostNotFound)
       ELSE LET ids == [i \in DOMAIN media |-> mem.mediaNextID + i - 1]
                byID == [id \in DOMAIN mem.mediaByID \cup Range(ids) |->
                            IF id \in DOMAIN mem.mediaByID THEN mem.mediaByID[id]
                            ELSE media[id - mem.mediaNextID + 1].position]
            IN  /\ \E q \in MemSortByPosition(MemMediaList(mem, postID) \o ids, byID) :
                       mem' = [mem EXCEPT !.mediaByID = byID,
                                          !.mediaByPostID = (postID :> q) @@ @,
                                          !.mediaNextID = @ + Len(media)]
                /\ RepoReturn(p, OK)
    /\ UNCHANGED <<db, seq, now, tx, pc, loc, gor, created, touched, durable,
                   deleted, nfault, rpc, pcache, ucache, dec>>

\* MediaRepository.Reorder (memory): every id of the map that is in mediaByID
\* gets its new position, whichever post it belongs to; only the list of
\* postID is sorted again
MemMedia_Reorder(p, postID, newPositions) ==
    /\ RepoCall(p, "memory", "Reorder", postID, <<>>)
    /\ IF postID \notin DOMAIN mem.mediaByPostID
       THEN mem' = mem /\ RepoReturn(p, ErrMediaReorderFailed)
       ELSE LET byID == [id \in DOMAIN mem.mediaByID |->
                            IF id \in DOMAIN newPositions THEN newPositions[id]
                            ELSE mem.mediaByID[id]]
            IN  /\ \E q \in MemSortByPosition(mem.mediaByPostID[postID], byID) :
                       mem' = [mem EXCEPT !.mediaByID = byID,
                                          !.mediaByPostID = (postID :> q) @@ @]
                /\ RepoReturn(p, OK)
    /\ UNCHANGED <<db, seq, now, tx, pc, loc, gor, created, touched, durable,
                   deleted, nfault, rpc, pcache, ucache, dec>>

\* MediaRepository.Detach (memory): the ids that are in mediaByID leave it and
\* every post's list, which keeps its order
MemMedia_Detach(p, mediaIDs) ==
    /\ RepoCall(p, "memory", "Detach", 0, <<>>)
    /\ LET gone == Range(mediaIDs) \cap DOMAIN mem.mediaByID
       IN  mem' = [mem EXCEPT
                     !.mediaByID = [id \in DOMAIN @ \ gone |-> @[id]],
                     !.mediaByPostID =
                         [post \in DOMAIN @ |-> SelectSeq(@[post], LAMBDA id : id \notin gone)]]
    /\ RepoReturn(p, OK)
    /\ UNCHANGED <<db, seq, now, tx, pc, loc, gor, created, touched, durable,
                   deleted, nfault, rpc, pcache, ucache, dec>>

NextM ==
    \E p \in Writers :
        \/ \E post \in MediaPosts, media \in MediaLists : Media_Attach(p, post, media)
        \/ \E post \in MediaPosts, np \in NewPositions : Media_Reorder(p, post, np)
        \/ \E ids \in MediaIDs : Media_Detach(p, ids)
        \/ \E post \in MediaPosts, media \in MediaLists : MemMedia_Attach(p, post, media)
        \/ \E post \in MediaPosts, np \in NewPositions : MemMedia_Reorder(p, post, np)
        \/ \E ids \in MediaIDs : MemMedia_Detach(p, ids)

SpecM == InitM /\ [][NextM]_vars

(* ------------ UpdatePost and DeletePost called concurrently ------------ *)

\* the media lists and tag lists of the concurrent UpdatePost calls
ConcurrentMedia == {<<Media2>>, <<Media1, Media2>>}
ConcurrentTags == {<<>>, <<"b">>}

\* hist when p starts its call: p's call and every call that has not yet
\* returned run concurrently
Concurrent(p) ==
    [q \in Procs |->
        IF q = p
        THEN [NoHist EXCEPT !.pre = db,
                            !.interf = \E r \in Procs \ {p} : pc[r] \notin {"idle", "done"}]
        ELSE IF pc[q] \notin {"idle", "done"} THEN [hist[q] EXCEPT !.interf = TRUE]
        ELSE hist[q]]

\* a caller invokes UpdatePost(author, 1, DTO with media items) once
Concurrent_UpdatePost(p) ==
    /\ pc[p] = "idle"
    /\ \E media \in ConcurrentMedia, tags \in ConcurrentTags :
          call' = [call EXCEPT ![p] = [op |-> "update", user |-> 1, id |-> 1,
                     title |-> NULL, content |-> NULL, tags |-> tags,
                     media |-> media]]
    /\ Goto(p, "u_begin")
    /\ nreq' = nreq + 1
    /\ loc' = [loc EXCEPT ![p] = NoLoc]
    /\ res' = [res EXCEPT ![p] = NoRes]
    /\ hist' = Concurrent(p)
    /\ UNCHANGED <<db, seq, now, tx, gor, created, touched, durable, deleted, nfault, rpc>>
    /\ UNCHANGED cvars

\* a caller invokes DeletePost(author, 1) once
Concurrent_DeletePost(p) ==
    /\ pc[p] = "idle"
    /\ call' = [call EXCEPT ![p] = [NoCall EXCEPT !.op = "delete", !.user = 1,
                                                  !.id = 1]]
    /\ Goto(p, "d_begin")
    /\ nreq' = nreq + 1
    /\ loc' = [loc EXCEPT ![p] = NoLoc]
    /\ res' = [res EXCEPT ![p] = NoRes]
    /\ hist' = Concurrent(p)
    /\ UNCHANGED <<db, seq, now, tx, gor, created, touched, durable, deleted, nfault, rpc>>
    /\ UNCHANGED cvars

NextU ==
    \E p \in Procs :
        \/ Concurrent_UpdatePost(p)
        \/ Concurrent_DeletePost(p)
        \/ Begin(p)
        \/ Commit(p)
        \/ CommitFails(p)
        \/ Rollback(p)
        \/ StatementFails(p)
        \/ UpdatePost_GetByID(p)
        \/ UpdatePost_Update(p)
        \/ UpdatePost_GetMedia(p)
        \/ UpdatePost_Detach(p)
        \/ UpdatePost_Attach(p)
        \/ UpdatePost_CreateTag(p)
        \/ UpdatePost_ReplacePostTags(p)
        \/ DeletePost_GetByID(p)
        \/ DeletePost_GetMedia(p)
        \/ DeletePost_Detach(p)
        \/ DeletePost_FindByPost(p)
        \/ DeletePost_UntagPost(p)
        \/ DeletePost_Delete(p)

\* the store starts with post 1 of author 1, its media item and its tag "a"
SpecU == InitC /\ [][NextU]_vars

(* ---------------- the decorator, one request at a time ----------------- *)

\* no request is in the decorator
Quiet == \A q \in Procs : dec[q].stage \in {"idle", "done"}

Sequential_UpdatePost(p) == Quiet /\ Cached_UpdatePost(p)

Sequential_DeletePost(p) == Quiet /\ Cached_DeletePost(p)

Sequential_GetPostByID(p) == Quiet /\ Cached_GetPostByID(p)

\* the store of InitC, and PostCache holding post 1 as an earlier GetPostByID
\* has written it
InitS ==
    /\ db = Rows({NewPostRow(1, 1, "t1", NULL, 1)}, AttachRows(1, <<Media1>>, 1),
                 {[id |-> 1, name |-> "a"]}, {[post |-> 1, tag |-> 1]})
    /\ durable = db
    /\ seq = [post |-> 2, media |-> 2, tag |-> 2]
    /\ now = 2
    /\ tx = [p \in Procs |-> NoTx]
    /\ pc = [p \in Procs |-> "idle"]
    /\ call = [p \in Procs |-> NoCall]
    /\ loc = [p \in Procs |-> NoLoc]
    /\ res = [p \in Procs |-> NoRes]
    /\ gor = [p \in Procs |-> "none"]
    /\ hist = [p \in Procs |-> NoHist]
    /\ created = (1 :> [media |-> <<Media1>>, tags |-> <<"a">>])
    /\ touched = {}
    /\ deleted = {}
    /\ nreq = 0
    /\ nfault = 0
    /\ rpc = NoRpc
    /\ pcache = (getPostKey(1) :>
                    EncodePost(PostDetailed(GetByID(db, 1), [id |-> 1],
                                            GetByPost(db, 1), FindByPost(db, 1))))
    /\ ucache = <<>>
    /\ dec = [p \in Procs |-> NoDec]
    /\ mem = NoMem

NextS ==
    \/ \E p \in Procs :
          \/ Sequential_UpdatePost(p)
          \/ Sequential_DeletePost(p)
          \/ Sequential_GetPostByID(p)
          \/ Cached_GetHit(p)
          \/ Cached_GetMiss(p)
          \/ Cached_GetCacheError(p)
          \/ Cached_InnerError(p)
          \/ Cached_SetPost(p)
          \/ Cached_SetUser(p)
          \/ Cached_Invalidate(p)
          \/ Begin(p)
          \/ BeginFails(p)
          \/ Commit(p)
          \/ CommitFails(p)
          \/ Rollback(p)
          \/ StatementFails(p)
          \/ UpdatePost_GetByID(p)
          \/ UpdatePost_Update(p)
          \/ DeletePost_GetByID(p)
          \/ DeletePost_GetMedia(p)
          \/ DeletePost_Detach(p)
          \/ DeletePost_FindByPost(p)
          \/ DeletePost_UntagPost(p)
          \/ DeletePost_Delete(p)
          \/ GetPostByID_Post(p)
          \/ GetPostByID_User(p)
          \/ GetPostByID_Media(p)
          \/ GetPostByID_Tags(p)
          \/ GetPostByID_QueryFails(p)
    \/ Cache_Expire

SpecS == InitS /\ [][NextS]_vars

(* ------------------- the UpdatePost RPC on the store -------------------- *)

\* the UpdatePost requests: proto3 strings and lists, "" and <<>> when the
\* caller has not supplied the field; post 2 does not exist
RpcRequests ==
    [user : Users, id : {1, 2}, title : {"", "t2"}, content : {"", "c2"},
     tags : {<<>>, <<"b">>}, media : {<<>>, <<Media2>>}]

\* UpdatePostHandler.UpdatePost: the request passes validate.Struct and the
\* handler calls postService.UpdatePost with Title: &req.Title, Content:
\* &req.Content (never nil), Tags and the media items
UpdatePostHandler_UpdatePost(p) ==
    /\ rpc.stage \in {"idle", "answered"}
    /\ nreq < MaxCalls
    /\ \E r \in RpcRequests :
          /\ rpc' = [method |-> "UpdatePost", id |-> r.id, stage |-> "update",
                     err |-> OK, geterr |-> OK, status |-> "none", req |-> r,
                     pre |-> db, out |-> NoOut]
          /\ call' = [call EXCEPT ![p] = [op |-> "update", user |-> r.user,
                        id |-> r.id, title |-> r.title, content |-> r.content,
                        tags |-> r.tags, media |-> NormalizeMedia(r.media)]]
    /\ Goto(p, "u_begin")
    /\ nreq' = nreq + 1
    /\ loc' = [loc EXCEPT ![p] = NoLoc]
    /\ res' = [res EXCEPT ![p] = NoRes]
    /\ hist' = [hist EXCEPT ![p] = [NoHist EXCEPT !.pre = db]]
    /\ UNCHANGED <<db, seq, now, tx, gor, created, touched, durable, deleted, nfault>>
    /\ UNCHANGED cvars

\* postService.UpdatePost has returned an error: the handler answers with its
\* status
UpdatePostHandler_UpdateError(p) ==
    /\ rpc.stage = "update" /\ pc[p] = "done" /\ call[p].op = "update"
    /\ res[p].err # OK
    /\ rpc' = [rpc EXCEPT !.stage = "answered", !.err = res[p].err,
                          !.status = UpdateStatus(res[p].err)]
    /\ UNCHANGED <<db, seq, now, tx, pc, call, loc, res, gor, hist, created, touched,
                   durable, deleted, nreq, nfault>>
    /\ UNCHANGED cvars

\* postService.UpdatePost has returned nil: the handler calls
\* postService.GetPostByID(req.GetId())
UpdatePostHandler_GetPostByID(p) ==
    /\ rpc.stage = "update" /\ pc[p] = "done" /\ call[p].op = "update"
    /\ res[p].err = OK
    /\ rpc' = [rpc EXCEPT !.stage = "refresh"]
    /\ call' = [call EXCEPT ![p] = [NoCall EXCEPT !.op = "get", !.id = rpc.id]]
    /\ Goto(p, "g_post")
    /\ loc' = [loc EXCEPT ![p] = NoLoc]
    /\ res' = [res EXCEPT ![p] = NoRes]
    /\ UNCHANGED <<db, seq, now, tx, gor, hist, created, touched, durable, deleted,
                   nreq, nfault>>
    /\ UNCHANGED cvars

\* postService.GetPostByID has returned: the handler answers with the post,
\* or with the status of the error
UpdatePostHandler_Answer(p) ==
    /\ rpc.stage = "refresh" /\ pc[p] = "done" /\ call[p].op = "get"
    /\ rpc' = [rpc EXCEPT !.stage = "answered", !.geterr = res[p].err,
                          !.out = res[p].out,
                          !.status = IF res[p].err = OK THEN "OK"
                                     ELSE UpdateRefreshStatus(res[p].err)]
    /\ UNCHANGED <<db, seq, now, tx, pc, call, loc, res, gor, hist, created, touched,
                   durable, deleted, nreq, nfault>>
    /\ UNCHANGED cvars

NextW ==
    \E p \in Writers :
        \/ UpdatePostHandler_UpdatePost(p)
        \/ UpdatePostHandler_UpdateError(p)
        \/ UpdatePostHandler_GetPostByID(p)
        \/ UpdatePostHandler_Answer(p)
        \/ Begin(p)
        \/ BeginFails(p)
        \/ Commit(p)
        \/ CommitFails(p)
        \/ Rollback(p)
        \/ StatementFails(p)
        \/ UpdatePost_GetByID(p)
        \/ UpdatePost_Update(p)
        \/ UpdatePost_GetMedia(p)
        \/ UpdatePost_Detach(p)
        \/ UpdatePost_Attach(p)
        \/ UpdatePost_CreateTag(p)
        \/ UpdatePost_ReplacePostTags(p)
        \/ GetPostByID_Post(p)
        \/ GetPostByID_User(p)
        \/ GetPostByID_Media(p)
        \/ GetPostByID_Tags(p)
        \/ GetPostByID_QueryFails(p)

\* the store starts with post 1 of author 1, its media item and its tag "a"
SpecW == InitC /\ [][NextW]_vars

(* ------------------------------- claims ------------------------------- *)

\* request p has returned from the use-case op, deferred function included
Returned(p, op) == pc[p] = "done" /\ call[p].op = op

TxOps == {"create", "update", "delete"}

\* the post with the id of p's request, in the rows before the call
PostBefore(p) == GetByID(hist[p].pre, call[p].id)

RECURSIVE BagOfSeq(_)
\* the multiset of the elements of a sequence
BagOfSeq(s) ==
    IF s = <<>> THEN EmptyBag ELSE BagOfSeq(Tail(s)) (+) SetToBag({Head(s)})

\* (url, type, position) of a media row or input
MediaKey(m) == [url |-> m.url, type |-> m.type, position |-> m.position]

MediaKeys(s) == BagOfSeq([i \in DOMAIN s |-> MediaKey(s[i])])

\* C1 as stated: once Begin has succeeded, exactly one of Commit and Rollback
\* is invoked on the transaction on every exit path, never both and never
\* neither.
C1_ExactlyOneOfCommitRollback ==
    \A p \in Writers :
        (pc[p] = "done" /\ call[p].op \in TxOps /\ hist[p].begun)
            => hist[p].commits + hist[p].rollbacks = 1

\* C1 amended: once Begin has succeeded, every exit path of CreatePost,
\* UpdatePost and DeletePost invokes Commit at most once and Rollback at most
\* once, and invokes Rollback exactly when no Commit has succeeded.  So at
\* least one of the two is invoked, Rollback never follows a successful
\* Commit, and a Commit that returns an error is followed by Rollback.
C1_RollbackUnlessCommitted ==
    \A p \in Writers :
        /\ hist[p].commits <= 1 /\ hist[p].rollbacks <= 1
        /\ (loc[p].committed => hist[p].commits = 1 /\ hist[p].rollbacks = 0)
        /\ (pc[p] = "done" /\ call[p].op \in TxOps /\ hist[p].begun)
              => IF loc[p].committed
                 THEN hist[p].commits = 1 /\ hist[p].rollbacks = 0
                 ELSE hist[p].rollbacks = 1

\* C1 witness: a call whose Commit returned an error although no statement
\* had failed has returned, and both Commit and Rollback were invoked.
C1_Witness ==
    \E p \in Writers :
        /\ pc[p] = "done" /\ call[p].op \in TxOps /\ hist[p].begun
        /\ hist[p].commits = 1 /\ hist[p].rollbacks = 1
        /\ res[p].err = ErrDatabaseQuery

\* C2: a CreatePost, UpdatePost or DeletePost call that returns an error
\* after its transaction was begun leaves the committed rows of posts, media,
\* tags and post-tag links as they were before the call.
C2_FailedCallLeavesStore ==
    \A p \in Writers :
        (pc[p] = "done" /\ call[p].op \in TxOps /\ hist[p].begun /\ res[p].err # OK)
            => db = hist[p].pre

\* C2 witness: an UpdatePost of an existing post by its author has written
\* inside its transaction (the post row, its media), failed at a later step
\* and returned the error.
C2_Witness ==
    \E p \in Writers :
        /\ Returned(p, "update") /\ hist[p].begun
        /\ res[p].err \in {ErrMediaAttachFailed, ErrUnknownTagError, ErrDatabaseQuery}
        /\ loc[p].post # NoPost /\ loc[p].post.author = call[p].user
        /\ loc[p].media # <<>>
        /\ hist[p].rollbacks = 1

\* C3: in CreatePost the author lookup precedes the transaction.  When
\* UserClient.GetUser fails the call returns ExternalServiceError, Begin is
\* never invoked and no row is created; a transaction is begun only after a
\* successful lookup.
C3_LookupBeforeTransaction ==
    \A p \in Writers :
        /\ (call[p].op = "create" /\ hist[p].lookup = "failed")
              => /\ pc[p] = "done"
                 /\ res[p].err = ErrExternalServiceError
                 /\ ~hist[p].begun /\ hist[p].commits = 0
                 /\ ~tx[p].open
                 /\ db = hist[p].pre
        /\ (call[p].op = "create" /\ (hist[p].begun \/ tx[p].open))
              => hist[p].lookup = "ok"

\* C3 witness: a CreatePost whose user lookup failed has returned, with posts
\* already stored by earlier calls.
C3_Witness ==
    \E p \in Writers :
        /\ Returned(p, "create") /\ hist[p].lookup = "failed"
        /\ db.posts # {}

\* C4 as stated, for the CreatePost that looks the author up concurrently: a
\* failed lookup has the transaction rolled back before the call returns, and
\* the call returns a PostDetailed with its author exactly when the commit
\* succeeded.
C4_FailedLookupRollsBack ==
    \A p \in Writers :
        (Returned(p, "createG") /\ hist[p].begun)
            => /\ gor[p] = "failed" => (~loc[p].committed /\ hist[p].rollbacks = 1)
               /\ loc[p].committed
                     <=> (res[p].err = OK /\ res[p].out.author = [id |-> call[p].user])

\* C5: rows written through the repositories of a transaction are not seen
\* through the repositories of the pool before the transaction commits, and
\* never if it is rolled back: every row the pool shows, and every row
\* GetPostByID has read, was made durable by a successful Commit.
C5_UncommittedNotObservable ==
    /\ \A t \in DOMAIN db : View(Pool)[t] \subseteq durable[t]
    /\ \A r \in Readers :
          /\ loc[r].post \in durable.posts \cup {NoPost}
          /\ Range(loc[r].media) \subseteq durable.media
          /\ Range(res[r].out.tags) \subseteq durable.tags

\* C5 witness: GetPostByID has answered PostNotFound for the id of a post that
\* an open transaction has inserted.
C5_Witness ==
    \E w \in Writers, r \in Readers :
        /\ tx[w].open
        /\ Returned(r, "get") /\ res[r].err = ErrPostNotFound
        /\ call[r].id \in {x.id : x \in tx[w].ins.posts}

\* C6: an UpdatePost call on a stored post whose author is not the caller
\* leaves the post, its media and its tag links (the whole store) unchanged
\* and returns InvalidInput; only a database failure met before the author
\* check (Begin, the read of the post) makes it return DatabaseQuery instead.
C6_UpdateByNonAuthor ==
    \A p \in Writers :
        (call[p].op = "update" /\ PostBefore(p) # NoPost
            /\ PostBefore(p).author # call[p].user)
            => /\ db = hist[p].pre
               /\ ~loc[p].committed
               /\ pc[p] \notin {"u_update", "u_getmedia", "u_detach", "u_attach",
                                "u_tagcreate", "u_replace", "u_commit"}
               /\ pc[p] = "done"
                     => \/ res[p].err = ErrInvalidInput
                        \/ hist[p].faulted /\ res[p].err = ErrDatabaseQuery
               /\ (pc[p] = "done" /\ loc[p].post # NoPost)
                     => res[p].err = ErrInvalidInput

\* C6 witness: a non-author's UpdatePost carrying a new title, tags and media
\* has returned InvalidInput.
C6_Witness ==
    \E p \in Writers :
        /\ Returned(p, "update") /\ res[p].err = ErrInvalidInput
        /\ PostBefore(p) # NoPost /\ PostBefore(p).author # call[p].user
        /\ call[p].title = "t2" /\ call[p].tags # <<>> /\ call[p].media # <<>>

\* C7: a DeletePost call on a stored post whose author is not the caller
\* leaves the post, its media and its tag links (the whole store) unchanged
\* and returns Forbidden; only a database failure met before the author check
\* (Begin, the read of the post) makes it return DatabaseQuery instead.
C7_DeleteByNonAuthor ==
    \A p \in Writers :
        (call[p].op = "delete" /\ PostBefore(p) # NoPost
            /\ PostBefore(p).author # call[p].user)
            => /\ db = hist[p].pre
               /\ ~loc[p].committed
               /\ pc[p] \notin {"d_getmedia", "d_detach", "d_find", "d_untag",
                                "d_delete", "d_commit"}
               /\ pc[p] = "done"
                     => \/ res[p].err = ErrForbidden
                        \/ hist[p].faulted /\ res[p].err = ErrDatabaseQuery
               /\ (pc[p] = "done" /\ loc[p].post # NoPost)
                     => res[p].err = ErrForbidden

\* C7 witness: a non-author's DeletePost of a post that has media and tags has
\* returned Forbidden.
C7_Witness ==
    \E p \in Writers :
        /\ Returned(p, "delete") /\ res[p].err = ErrForbidden
        /\ PostBefore(p) # NoPost /\ PostBefore(p).author # call[p].user
        /\ GetByPost(db, call[p].id) # <<>> /\ FindByPost(db, call[p].id) # <<>>

\* C8 as stated: the UpdatePost and the DeletePost handler answer a service
\* error of kind Forbidden and one of kind InvalidInput alike, with
\* PermissionDenied.
C8_SameMappingInBothHandlers ==
    (rpc.stage = "answered" /\ rpc.err \in {ErrForbidden, ErrInvalidInput})
        => rpc.status = "PermissionDenied"

\* C9: DeletePost invoked twice with the same (caller, id), the caller being
\* the author of a stored post, succeeds the first time and removes the post;
\* the second call returns PostNotFound and leaves the store as it was before
\* that call.  (Calls in which the database fails are set apart: they return
\* the error of the failure, and they too leave the store unchanged.)
C9_DeleteTwice ==
    \A p \in Writers :
        /\ (Returned(p, "delete") /\ ~hist[p].faulted /\ PostBefore(p) # NoPost
               /\ PostBefore(p).author = call[p].user)
              => /\ res[p].err = OK
                 /\ GetByID(db, call[p].id) = NoPost
                 /\ <<call[p].user, call[p].id>> \in deleted
        /\ (call[p].op = "delete" /\ ~loc[p].committed
               /\ <<call[p].user, call[p].id>> \in deleted)
              => /\ db = hist[p].pre
                 /\ (pc[p] = "done" /\ ~hist[p].faulted) => res[p].err = ErrPostNotFound

\* C9 witness: the second DeletePost of the same (caller, id) has returned
\* PostNotFound.
C9_Witness ==
    \E p \in Writers :
        /\ Returned(p, "delete") /\ ~loc[p].committed
        /\ <<call[p].user, call[p].id>> \in deleted
        /\ res[p].err = ErrPostNotFound

\* C10: a post successfully created with media list M and tags T, and not
\* updated or deleted since, is returned by a successful GetPostByID with
\* exactly M as a multiset of (url, type, position) and exactly T as a set of
\* tag names.
C10_CreateGetRoundTrip ==
    \A r \in Readers :
        (Returned(r, "get") /\ res[r].err = OK /\ call[r].id \in DOMAIN created
            /\ call[r].id \notin touched)
            => /\ res[r].out.post.id = call[r].id
               /\ MediaKeys(res[r].out.media) = MediaKeys(created[call[r].id].media)
               /\ {t.name : t \in Range(res[r].out.tags)}
                     = Range(created[call[r].id].tags)

\* C10 witness: GetPostByID has returned a post created with two media items
\* and two tags.
C10_Witness ==
    \E r \in Readers :
        /\ Returned(r, "get") /\ res[r].err = OK
        /\ call[r].id \in DOMAIN created /\ call[r].id \notin touched
        /\ Len(created[call[r].id].media) = 2
        /\ Len(created[call[r].id].tags) = 2



\* a sequence that lists some element more than once
HasDuplicate(s) == Cardinality(Range(s)) < Len(s)

\* C11: a CreatePost request that lists a tag name more than once, and meets
\* no failing dependency, succeeds with the duplicates coalesced: every name
\* of the request is once in the returned PostDetailed.Tags and the new post
\* is linked to it.
C11_DuplicateTagsCoalesced ==
    \A p \in Writers :
        (Returned(p, "create") /\ HasDuplicate(call[p].tags) /\ ~hist[p].faulted)
            => /\ res[p].err = OK
               /\ \A n \in Range(call[p].tags) :
                     /\ Cardinality({i \in DOMAIN res[p].out.tags :
                                        res[p].out.tags[i].name = n}) = 1
                     /\ [post |-> res[p].out.post.id, tag |-> TagIdOf(db, n)] \in db.links



\* two Create calls for the same name that have both returned
CreatedSame(p, q) ==
    /\ p # q
    /\ call[p].op = "tagcreate" /\ call[q].op = "tagcreate"
    /\ call[p].tags = call[q].tags
    /\ pc[p] \in {"t_ret", "done"} /\ pc[q] \in {"t_ret", "done"}

\* the tags named as in p's call that a statement on handle h sees
TagsNamed(h, p) == {t \in View(h).tags : t.name = call[p].tags[1]}

C13_UpdateReplacesMedia ==
    \A p \in Writers :
        (Returned(p, "update") /\ res[p].err = OK)
            => /\ {m.id : m \in Range(GetByPost(db, call[p].id))}
                     \cap {m.id : m \in Range(GetByPost(hist[p].pre, call[p].id))} = {}
               /\ MediaKeys(GetByPost(db, call[p].id)) = MediaKeys(call[p].media)



\* C14: an UpdatePost whose title (content) is the empty string leaves the
\* stored title (content) of the post as it was, in the rows the transaction
\* sees after postRepo.Update and in the committed rows after the call.
C14_EmptyStringKeepsField ==
    \A p \in Writers :
        (call[p].op = "update" /\ PostBefore(p) # NoPost)
            => LET cur == GetByID(IF tx[p].open THEN View(p) ELSE db, call[p].id)
               IN  /\ (call[p].title = "" /\ cur # NoPost)
                         => cur.title = PostBefore(p).title
                   /\ (call[p].content = "" /\ cur # NoPost)
                         => cur.content = PostBefore(p).content

\* C14 witness: an UpdatePost with empty title and empty content has
\* committed: the post row was rewritten (updated_at) with its title kept.
C14_Witness ==
    \E p \in Writers :
        /\ Returned(p, "update") /\ res[p].err = OK
        /\ call[p].title = "" /\ call[p].content = ""
        /\ PostBefore(p) # NoPost
        /\ GetByID(db, call[p].id) # PostBefore(p)
        /\ GetByID(db, call[p].id).title = PostBefore(p).title



\* the names of the tags linked to a post in the rows v
TagNamesOf(v, postID) == {t.name : t \in Range(FindByPost(v, postID))}

\* C15: after a successful UpdatePost with a non-empty tags list T the names
\* linked to the post are exactly the names of T.
C15_UpdateReplacesTags ==
    \A p \in Writers :
        (Returned(p, "update") /\ res[p].err = OK /\ call[p].tags # <<>>)
            => TagNamesOf(db, call[p].id) = Range(call[p].tags)

\* C15 witness: a successful UpdatePost with tags T has removed the link to a
\* name that is not in T and kept the link to a name of T.
C15_Witness ==
    \E p \in Writers :
        /\ Returned(p, "update") /\ res[p].err = OK /\ call[p].tags # <<>>
        /\ TagNamesOf(hist[p].pre, call[p].id) \ Range(call[p].tags) # {}
        /\ TagNamesOf(hist[p].pre, call[p].id) \cap Range(call[p].tags) # {}



\* C16: of two consecutive GetPostByID(id) calls of the decorator, the first
\* finding no entry and succeeding, with no invalidation or expiry of the
\* entry and no cache failure in between, the first has called the inner
\* service, the second is a hit that has not called it, and both return the
\* same PostDetailed; a call that is no hit has called the inner service
C16_SecondGetIsHit ==
    \A r \in Readers :
        dec[r].op = "get" /\ dec[r].stage = "done" =>
            /\ dec[r].hit <=> ~dec[r].inner
            /\ (/\ dec[r].prev.id = dec[r].id
                /\ ~dec[r].prev.hit
                /\ dec[r].prev.ret.err = OK
                /\ dec[r].prev.kept
                /\ ~dec[r].prev.cachefail
                /\ ~dec[r].cachefail)
               => /\ dec[r].prev.inner
                  /\ dec[r].hit
                  /\ ~dec[r].inner
                  /\ dec[r].ret = dec[r].prev.ret

\* the second of two such calls has returned a post with its author, media
\* and tags from the cache
C16_Witness ==
    \E r \in Readers :
        /\ dec[r].op = "get" /\ dec[r].stage = "done"
        /\ dec[r].prev.id = dec[r].id
        /\ ~dec[r].prev.hit /\ dec[r].prev.inner
        /\ dec[r].prev.ret.err = OK
        /\ dec[r].prev.kept
        /\ ~dec[r].prev.cachefail /\ ~dec[r].cachefail
        /\ dec[r].hit
        /\ dec[r].ret.out.post.id = dec[r].id
        /\ dec[r].ret.out.author # NoUser
        /\ dec[r].ret.out.media # <<>>
        /\ dec[r].ret.out.tags # <<>>


\* C17: the decorator's UpdatePost and DeletePost delete the PostCache key of
\* the post id only after the inner call has returned success (committed),
\* and always then: the step in which such a call returns after an inner
\* success has invoked the delete once and, when the delete succeeded, leaves
\* no entry for the id; the step in which it returns an inner error has
\* invoked no delete and leaves PostCache as it was
C17_InvalidateAfterSuccess ==
    /\ [](\A p \in Writers :
             dec[p].op \in {"update", "delete"} /\ dec[p].deletes > 0
                => pc[p] = "done" /\ res[p].err = OK /\ loc[p].committed)
    /\ [][\A p \in Writers :
             (/\ dec[p].op \in {"update", "delete"}
              /\ dec[p].stage = "inner"
              /\ dec'[p].stage = "done")
             => IF res[p].err = OK
                THEN /\ dec'[p].deletes = 1
                     /\ dec'[p].ret.err = OK
                     /\ dec'[p].cachefail \/ dec[p].id \notin DOMAIN pcache'
                ELSE /\ dec'[p].deletes = 0
                     /\ pcache' = pcache]_vars

\* an UpdatePost or DeletePost of the decorator has returned success after
\* removing the entry that an earlier GetPostByID had stored for its id
C17_Witness ==
    \E p \in Writers :
        /\ dec[p].op \in {"update", "delete"}
        /\ dec[p].stage = "done"
        /\ dec[p].ret.err = OK
        /\ dec[p].deletes = 1 /\ ~dec[p].cachefail
        /\ dec[p].removed
        /\ dec[p].id \notin DOMAIN pcache


\* C18: a decorator call in which a cache operation failed (GetPost with an
\* error other than a miss, SetPost, SetUser, DeletePost, DeleteUser) has
\* called the inner service and returns exactly the inner service's result
C18_CacheFailureIgnored ==
    \A p \in Procs :
        dec[p].stage = "done" /\ dec[p].cachefail
            => dec[p].inner /\ dec[p].ret = res[p]

\* a GetPostByID of the decorator has returned the post of its inner call
\* although one of its cache operations failed
C18_Witness ==
    \E p \in Procs :
        /\ dec[p].stage = "done" /\ dec[p].cachefail
        /\ dec[p].op = "get"
        /\ dec[p].ret.err = OK
        /\ dec[p].ret.out.post.id = dec[p].id
        /\ dec[p].ret = res[p]


\* C19: a decorator call whose inner call returned an error returns that
\* error, with no PostDetailed, has invoked no write and no delete on
\* PostCache or UserCache, and the step in which it returns leaves both
\* caches as they were
C19_InnerErrorUnchanged ==
    /\ [](\A p \in Procs :
             dec[p].stage = "done" /\ dec[p].inner /\ res[p].err # OK
                => /\ dec[p].ret = [err |-> res[p].err, out |-> NoOut]
                   /\ dec[p].writes = 0 /\ dec[p].deletes = 0)
    /\ [][\A p \in Procs :
             (/\ dec[p].stage = "inner" /\ pc[p] = "done" /\ res[p].err # OK
              /\ dec'[p].stage = "done")
             => pcache' = pcache /\ ucache' = ucache]_vars

\* an UpdatePost of the decorator by a user who is not the author has
\* returned the error of its inner call and the entry of the post is still
\* cached
C19_Witness ==
    \E p \in Writers :
        /\ dec[p].op = "update" /\ dec[p].stage = "done" /\ dec[p].inner
        /\ res[p].err = ErrInvalidInput
        /\ dec[p].ret.err = ErrInvalidInput
        /\ dec[p].id \in DOMAIN pcache


\* C20: a decorator CreatePost whose inner call succeeded deletes the
\* author's UserCache key, then stores the returned PostDetailed in PostCache
\* under the id of the created post, then stores the returned author in
\* UserCache: with no cache failure, the DeleteUser step leaves no entry of
\* the author, the SetPost step leaves the created post under its id, the
\* SetUser step leaves the returned author under the author's id, and the
\* call has returned the inner result; the post's entry is there and reads
\* back as the result for as long as nothing removes or replaces it
C20_CreateWritesThrough ==
    /\ [](\A p \in Writers :
             (/\ dec[p].op = "create" /\ dec[p].stage = "done"
              /\ dec[p].ret.err = OK /\ ~dec[p].cachefail)
             => /\ dec[p].ret = res[p]
                /\ dec[p].deletes = 1
                /\ dec[p].writes = IF res[p].out.author # NoUser THEN 2 ELSE 1
                /\ dec[p].id = res[p].out.post.id
                /\ dec[p].kept
                      => /\ dec[p].id \in DOMAIN pcache
                         /\ DecodePost(pcache[dec[p].id]) = dec[p].ret.out)
    /\ [][\A p \in Writers :
             dec[p].op = "create" /\ ~dec'[p].cachefail =>
                /\ dec[p].stage = "inner" /\ dec'[p].stage = "setpost"
                      => call[p].user \notin DOMAIN ucache'
                /\ dec[p].stage = "setpost" /\ dec'[p].stage # "setpost"
                      => /\ dec'[p].stage =
                               IF res[p].out.author # NoUser THEN "setuser"
                                                             ELSE "done"
                         /\ res[p].out.post.id \in DOMAIN pcache'
                         /\ DecodePost(pcache'[res[p].out.post.id]) = res[p].out
                /\ dec[p].stage = "setuser" /\ dec'[p].stage = "done"
                      => /\ res[p].out.author.id \in DOMAIN ucache'
                         /\ ucache'[res[p].out.author.id] = res[p].out.author]_vars

\* a CreatePost of the decorator has returned its post with media and tags,
\* all cache operations succeeding: the author's entry cached before the call
\* was deleted, the post is cached under its id and the author is cached again
C20_Witness ==
    \E p \in Writers :
        /\ dec[p].op = "create" /\ dec[p].stage = "done"
        /\ dec[p].ret.err = OK /\ ~dec[p].cachefail
        /\ dec[p].removed
        /\ dec[p].kept
        /\ dec[p].ret.out.media # <<>> /\ dec[p].ret.out.tags # <<>>
        /\ DecodePost(pcache[dec[p].id]) = dec[p].ret.out
        /\ call[p].user \in DOMAIN ucache
        /\ ucache[call[p].user] = dec[p].ret.out.author


\* C21: in the decorator's ListPosts, for every distinct author id of the
\* returned posts that the loop has handled: on a UserCache hit every post of
\* that author carries the user found in the cache and nothing else of the
\* inner result is changed; on a miss the posts keep the inner author, and
\* that author is written to UserCache under the author id (unless a cache
\* operation failed)
C21_ListAuthorsThroughCache ==
    /\ [](\A p \in Readers :
             dec[p].op = "list" =>
                LET d == dec[p]
                    handled == AuthorIDs(d.orig) \ d.todo
                IN  /\ DOMAIN d.list = DOMAIN d.orig
                    /\ d.total >= Len(d.orig)
                    /\ DOMAIN d.hits \cup DOMAIN d.sets \subseteq handled
                    /\ DOMAIN d.hits \cap DOMAIN d.sets = {}
                    /\ \A i \in DOMAIN d.orig :
                          d.list[i] =
                             IF d.orig[i].post.author \in DOMAIN d.hits
                             THEN [d.orig[i] EXCEPT
                                      !.author = d.hits[d.orig[i].post.author]]
                             ELSE d.orig[i]
                    /\ \A a \in DOMAIN d.sets :
                          d.sets[a].id = a /\ d.sets[a] = FirstAuthor(d.orig, a)
                    /\ ~d.cachefail => handled = DOMAIN d.hits \cup DOMAIN d.sets)
    /\ [][\A p \in Readers :
             dec[p].op = "list" /\ dec'[p].op = "list" =>
                \A a \in dec[p].todo \ dec'[p].todo :
                   IF a \in DOMAIN dec'[p].hits
                   THEN /\ a \in DOMAIN ucache
                        /\ dec'[p].hits[a] = ucache[a]
                        /\ ucache' = ucache
                   ELSE /\ nfault' = nfault => a \notin DOMAIN ucache
                        /\ a \in DOMAIN dec'[p].sets
                              => /\ a \in DOMAIN ucache'
                                 /\ ucache'[a] = FirstAuthor(dec[p].orig, a)]_vars

\* a ListPosts of the decorator has returned three posts: the two of author 1
\* carry the older revision of the user found in UserCache, the author of the
\* third was not cached and is cached now as the inner service returned it
C21_Witness ==
    \E p \in Readers :
        /\ dec[p].op = "list" /\ dec[p].stage = "done" /\ ~dec[p].cachefail
        /\ Len(dec[p].list) = 3
        /\ DOMAIN dec[p].hits = {1} /\ dec[p].hits[1].rev = 1
        /\ \A i \in DOMAIN dec[p].list :
              dec[p].list[i].post.author = 1
                 => dec[p].list[i].author = [id |-> 1, rev |-> 1]
        /\ DOMAIN dec[p].sets = {2}
        /\ 2 \in DOMAIN ucache /\ ucache[2] = ListedUser(2)


\* C22: every PostDetailed that a GetPostByID(id) returns, from PostCache or
\* from the inner service, through the decorator or not, has the requested
\* id and, when it has an author, the author whose id is the post's author_id
C22_ReturnedPostIsRequested ==
    /\ \A p \in Procs :
          (dec[p].op = "get" /\ dec[p].stage = "done" /\ dec[p].ret.err = OK)
             => /\ dec[p].ret.out.post.id = dec[p].id
                /\ dec[p].ret.out.author # NoUser
                      => dec[p].ret.out.author.id = dec[p].ret.out.post.author
    /\ \A p \in Procs :
          (call[p].op = "get" /\ pc[p] = "done" /\ res[p].err = OK)
             => /\ res[p].out.post.id = call[p].id
                /\ res[p].out.author # NoUser
                      => res[p].out.author.id = res[p].out.post.author

\* a GetPostByID of the post that a CreatePost of the decorator has written
\* through is served from PostCache, with its author
C22_Witness ==
    \E p \in Readers :
        /\ dec[p].op = "get" /\ dec[p].stage = "done" /\ dec[p].ret.err = OK
        /\ dec[p].hit
        /\ dec[p].id = 2
        /\ dec[p].ret.out.post.id = 2
        /\ dec[p].ret.out.author = [id |-> dec[p].ret.out.post.author]


\* the request with every media position put in bounds passes validation
OtherwiseValid(r) ==
    RequestValid([r EXCEPT !.media = [i \in DOMAIN r.media |->
                                         [r.media[i] EXCEPT !.position = 1]]])

\* C23: a CreatePost or UpdatePost request, valid but for a media item whose
\* position is outside [1,9], is forwarded to the service, the position of
\* the item at zero-based index i replaced by i+1, or the item dropped when
\* i+1 exceeds 9
C23_PositionNormalized ==
    (/\ rpc.stage \in {"answered", "forwarded"}
     /\ OtherwiseValid(rpc.req)
     /\ \E i \in DOMAIN rpc.req.media :
           rpc.req.media[i].position < MinMediaPosition
              \/ rpc.req.media[i].position > MaxMediaPosition)
    => /\ rpc.called
       /\ rpc.dto = NormalizeMedia(rpc.req.media)


\* the request breaks an inbound limit: more than 9 media items, a supplied
\* title outside 3..255, a supplied content shorter than 10, or a tag whose
\* length is outside 2..50
BreaksLimits(r) ==
    \/ Len(r.media) > 9
    \/ r.title > 0 /\ (r.title < 3 \/ r.title > 255)
    \/ r.content > 0 /\ r.content < 10
    \/ \E i \in DOMAIN r.tags : r.tags[i] < 2 \/ r.tags[i] > 50

\* C24: a CreatePost or UpdatePost request that breaks an inbound limit is
\* answered InvalidArgument and the service is not called
C24_LimitsEnforced ==
    (rpc.stage \in {"answered", "forwarded"} /\ BreaksLimits(rpc.req))
       => rpc.status = "InvalidArgument" /\ ~rpc.called

\* the control points of CreatePost, UpdatePost and DeletePost at which a
\* repository of the transaction is called
RepositorySteps ==
    {"c_create", "c_attach", "c_getmedia", "c_find", "c_tagcreate", "c_tagpost",
     "u_get", "u_update", "u_getmedia", "u_detach", "u_attach", "u_tagcreate",
     "u_replace", "d_get", "d_getmedia", "d_detach", "d_find", "d_untag", "d_delete"}

\* the errors the use-cases return without a repository having failed
OwnErrors == {OK, ErrForbidden, ErrInvalidInput}

\* this step is a repository call of p's transaction returning an error: a
\* database error, or a not-found result of the repository
RepositoryError(p) ==
    /\ call[p].op \in TxOps /\ tx[p].open /\ pc[p] \in RepositorySteps
    /\ \/ hist'[p].faulted /\ ~hist[p].faulted
       \/ pc'[p] # pc[p] /\ res'[p].err \notin OwnErrors

C26_CommitErrorThenRollback ==
    \A p \in Writers :
        (call[p].op \in TxOps /\ hist[p].commits = 1 /\ ~loc[p].committed) =>
            /\ res[p] = [err |-> ErrDatabaseQuery, out |-> NoOut]
            /\ pc[p] \in {"rollback", "done"}
            /\ hist[p].rollbacks = (IF pc[p] = "done" THEN 1 ELSE 0)

\* C26 witness: a DeletePost of an existing post by its author reached Commit
\* with no statement failed, Commit returned an error, and the call has
\* ended with DatabaseQuery after Rollback; the post is still stored.
C26_Witness ==
    \E p \in Writers :
        /\ Returned(p, "delete") /\ hist[p].commits = 1 /\ ~loc[p].committed
        /\ hist[p].rollbacks = 1 /\ res[p].err = ErrDatabaseQuery
        /\ GetByID(db, call[p].id) # NoPost

\* the tags and links of the repository p has called, before and after the call
TagsBefore(p) == IF call[p].impl = "memory" THEN call[p].pre.tags ELSE hist[p].pre.tags
LinksBefore(p) == IF call[p].impl = "memory" THEN call[p].pre.links ELSE hist[p].pre.links
TagsAfter(p) == IF call[p].impl = "memory" THEN mem.tags ELSE db.tags
LinksAfter(p) == IF call[p].impl = "memory" THEN mem.links ELSE db.links

\* the post of p's repository call did not exist when the call was made
RepoPostMissing(p) ==
    IF call[p].impl = "memory" THEN call[p].id \notin call[p].pre.postExists
    ELSE call[p].id \notin PostIds(hist[p].pre)

\* C27 as stated: TagPost, UntagPost and ReplacePostTags invoked with a post
\* id that does not exist return PostNotFound and create no tag and no link.
C27_MissingPostReported ==
    \A p \in Writers :
        (call[p].op \in {"TagPost", "UntagPost", "ReplacePostTags"} /\ RepoPostMissing(p))
            => /\ res[p].err = ErrPostNotFound
               /\ TagsAfter(p) \subseteq TagsBefore(p)
               /\ LinksAfter(p) \subseteq LinksBefore(p)

\* C28: DeleteUnused removes exactly the tags that have no post link: every
\* tag that had a link is still there with its id and name, no tag without a
\* link remains, no tag appears and the links are left as they were.
C28_DeleteUnusedExact ==
    \A p \in Writers :
        call[p].op = "DeleteUnused" =>
            /\ \A t \in TagsBefore(p) :
                   (\E l \in LinksBefore(p) : l.tag = t.id) => t \in TagsAfter(p)
            /\ \A t \in TagsAfter(p) : \E l \in LinksAfter(p) : l.tag = t.id
            /\ TagsAfter(p) \subseteq TagsBefore(p)
            /\ LinksAfter(p) = LinksBefore(p)

\* C28 witness: DeleteUnused of the Postgres repository has run on a store
\* that held a tag linked to a post and a tag with no link; the first is left
\* and the second is gone.
C28_Witness ==
    \E p \in Writers :
        /\ call[p].op = "DeleteUnused" /\ call[p].impl = "postgres"
        /\ \E t, u \in hist[p].pre.tags :
               /\ \E l \in hist[p].pre.links : l.tag = t.id
               /\ ~\E l \in hist[p].pre.links : l.tag = u.id
               /\ t \in db.tags /\ u \notin db.tags

PositionOrdered(l) == \A i, j \in DOMAIN l : i < j => l[i].position <= l[j].position

\* C30 as stated: after any sequence of Attach, Reorder and Detach on the
\* MediaRepository, GetByPost returns for every post its media in
\* non-decreasing position order (Postgres and in-memory repository).
C30_GetByPostOrdered ==
    \A post \in MediaPosts :
        /\ PositionOrdered(GetByPost(db, post))
        /\ PositionOrdered(MemGetByPost(mem, post))

\* the media rows S have positions within the bounds and no two rows of the
\* same post have the same position
PositionsValid(S) ==
    \A m \in S :
        /\ m.position >= MinMediaPosition /\ m.position <= MaxMediaPosition
        /\ \A n \in S : n.post = m.post /\ n.position = m.position => n.id = m.id

\* the media items of the in-memory repository as rows: id, owning post, position
MemMediaRows(m) ==
    UNION {{[id |-> id, post |-> post, position |-> m.mediaByID[id]] :
               id \in Range(m.mediaByPostID[post])} : post \in DOMAIN m.mediaByPostID}

\* C31 as stated: in every reachable store state, each stored media item has
\* a position in [1,9] and no two media items of the same post share a
\* position (Postgres store and in-memory repository).
C31_PositionsBoundedAndUnique ==
    /\ PositionsValid(db.media)
    /\ PositionsValid(MemMediaRows(mem))

\* no two of the tags S have the same name
NamesUnique(S) == \A t, u \in S : t.name = u.name => t.id = u.id

\* a name that is stored before and after a step has the same id after it
IdsKept(S, T) == \A t \in S, u \in T : t.name = u.name => t.id = u.id

\* C32: after any sequence of TagRepository operations (Create, TagPost,
\* UntagPost, ReplacePostTags, DeleteUnused), no two stored tags have the same
\* name, and a name that is still stored keeps the id it was first given
\* (Postgres store and in-memory repository).
C32_TagNamesUniqueIdsStable ==
    /\ [](NamesUnique(db.tags) /\ NamesUnique(mem.tags))
    /\ [][IdsKept(db.tags, db.tags') /\ IdsKept(mem.tags, mem.tags')]_vars

\* C32 witness: ReplacePostTags of the in-memory repository was called with
\* the names "a" and "b" when "a" was stored and "b" was not; "a" has the id
\* it had and "b" has a new one.
C32_Witness ==
    \E p \in Writers :
        /\ call[p].op = "ReplacePostTags" /\ call[p].impl = "memory"
        /\ call[p].tags = <<"a", "b">> /\ res[p].err = OK
        /\ MemTagID(call[p].pre, "a") # 0 /\ MemTagID(call[p].pre, "b") = 0
        /\ MemTagID(mem, "a") = MemTagID(call[p].pre, "a")
        /\ MemTagID(mem, "b") = call[p].pre.tagNextID

\* C33: after a successful DeletePost(id), no media record and no post-tag
\* link referring to id remains in the store, whatever an UpdatePost running
\* at the same time has attached to the post.
C33_DeleteLeavesNoChildren ==
    \A d \in deleted :
        /\ {m \in db.media : m.post = d[2]} = {}
        /\ {l \in db.links : l.post = d[2]} = {}

\* C33 witness: DeletePost has succeeded on a post to which an UpdatePost,
\* running at the same time, had attached two media items and a new tag,
\* committed after DeletePost had read the one media item to detach.
C33_Witness ==
    \E p, q \in Procs :
        /\ Returned(p, "delete") /\ res[p].err = OK /\ <<1, 1>> \in deleted
        /\ Returned(q, "update") /\ res[q].err = OK /\ hist[q].interf
        /\ Len(call[q].media) = 2 /\ call[q].tags = <<"b">>
        /\ Len(loc[p].media) = 1 /\ Len(loc[p].tags) = 1
        /\ db.posts = {} /\ db.media = {} /\ db.links = {}

\* the media items stored for the post, in the order of their ids, as the
\* url, type and position a request gives
StoredMedia(v, postID) ==
    LET S == {m \in v.media : m.post = postID}
        l == SetToSeqBy(S, [m \in S |-> m.id])
    IN  [i \in DOMAIN l |-> [url |-> l[i].url, type |-> l[i].type,
                             position |-> l[i].position]]

\* C36: for two concurrent UpdatePost calls by the author on the same post,
\* each carrying a non-empty media list, after both have completed the post's
\* stored media equal exactly the list of one call that returned success:
\* never a mixture of the two lists and never media from a call that returned
\* an error (when both returned an error, the media are those of before).
C36_ConcurrentUpdatesOneList ==
    \A p, q \in Procs :
        (/\ p # q
         /\ Returned(p, "update") /\ Returned(q, "update")
         /\ call[p].id = call[q].id
         /\ call[p].media # <<>> /\ call[q].media # <<>>)
            => IF res[p].err = OK \/ res[q].err = OK
               THEN \E s \in {p, q} :
                       res[s].err = OK /\ StoredMedia(db, call[p].id) = call[s].media
               ELSE StoredMedia(db, call[p].id) = created[call[p].id].media

\* C36 witness: two UpdatePost calls on post 1, one with two media items and
\* one with one, have each read the post in their transaction before the
\* other committed, and both have returned success; the post has the two
\* items of the first.
C36_Witness ==
    \E p, q \in Procs :
        /\ p # q
        /\ Returned(p, "update") /\ Returned(q, "update")
        /\ hist[p].interf /\ hist[q].interf
        /\ loc[p].post.updated = 1 /\ loc[q].post.updated = 1
        /\ res[p].err = OK /\ res[q].err = OK
        /\ Len(call[p].media) = 2 /\ Len(call[q].media) = 1
        /\ StoredMedia(db, 1) = call[p].media

\* the PostCache entry of the post, if there is one, is the post as the
\* committed rows have it: the row, its media and its tags
EntryCurrent(id) ==
    getPostKey(id) \in DOMAIN pcache =>
        LET pd == DecodePost(pcache[getPostKey(id)])
        IN  /\ pd.post = GetByID(db, id)
            /\ pd.media = GetByPost(db, id)
            /\ pd.tags = FindByPost(db, id)

\* C34 as stated: with decorator GetPostByID, UpdatePost and DeletePost
\* requests for the same post id running concurrently in any interleaving and
\* all cache operations succeeding, once all requests have completed PostCache
\* holds no entry for that id that differs from the committed database state.
C34_NoStaleEntryAfterMutation ==
    (/\ \A p \in Procs : dec[p].stage \in {"idle", "done"}
     /\ nfault = 0)
        => \A p \in Procs :
              (dec[p].op \in {"update", "delete"} /\ dec[p].ret.err = OK
                  /\ dec[p].stage = "done")
                 => EntryCurrent(dec[p].id)

\* the result ret of a GetPostByID(id) is what the rows v hold: the post with
\* its media and tags, or an error and no post when the post is not there
\* (PostNotFound unless a query of the call failed)
ReflectsStore(ret, v, id, faulted) ==
    IF GetByID(v, id) = NoPost
    THEN ret.err # OK /\ ret.out = NoOut /\ (~faulted => ret.err = ErrPostNotFound)
    ELSE ret.err = OK =>
            /\ ret.out.post = GetByID(v, id)
            /\ ret.out.media = GetByPost(v, id)
            /\ ret.out.tags = FindByPost(v, id)

\* the decorator's GetPostByID of r returns in this step, after the last call
\* of w, an UpdatePost or DeletePost of the same post, has returned success
GetAfterMutation(r, w) ==
    /\ dec[r].stage # "done" /\ dec'[r].stage = "done" /\ dec'[r].op = "get"
    /\ dec[w].op \in {"update", "delete"} /\ dec[w].stage = "done"
    /\ dec[w].ret.err = OK /\ dec[w].id = dec'[r].id

\* C35 as stated: with no concurrent requests, after a decorator UpdatePost or
\* DeletePost on a post id has returned success, the next decorator
\* GetPostByID(id) reflects the mutation (the updated post, or PostNotFound
\* after a delete) and never returns the snapshot cached before the mutation.
C35_NextGetReflectsMutation ==
    [][\A r \in Readers, w \in Writers :
          GetAfterMutation(r, w)
             => ReflectsStore(dec'[r].ret, db', dec'[r].id, hist'[r].faulted)]_vars

\* C35 amended: with no concurrent requests, after a decorator UpdatePost or
\* DeletePost on a post id has returned success and its deletion of the
\* post's PostCache key has succeeded, the next decorator GetPostByID(id)
\* reflects the mutation and never returns the snapshot cached before it.
C35_NextGetReflectsInvalidatedMutation ==
    [][\A r \in Readers, w \in Writers :
          (GetAfterMutation(r, w) /\ ~dec[w].cachefail)
             => ReflectsStore(dec'[r].ret, db', dec'[r].id, hist'[r].faulted)]_vars

\* C35 witness: post 1 was cached with title t1; UpdatePost has set the title
\* t2 and deleted the key, and the GetPostByID after it has returned the post
\* with title t2 from the inner service.
C35_Witness ==
    \E r \in Readers, w \in Writers :
        /\ dec[r].op = "get" /\ dec[r].stage = "done" /\ dec[r].id = 1
        /\ dec[r].inner /\ dec[r].ret.err = OK /\ dec[r].ret.out.post.title = "t2"
        /\ dec[w].op = "update" /\ dec[w].stage = "done" /\ dec[w].id = 1
        /\ dec[w].ret.err = OK /\ dec[w].removed /\ ~dec[w].cachefail

\* the row of the post, its media and its tag links in the rows v
PostState(v, id) ==
    [post |-> GetByID(v, id), media |-> {m \in v.media : m.post = id},
     links |-> {l \in v.links : l.post = id}]

\* C37 as stated: if the UpdatePost RPC returns a non-OK status, the stored
\* post, its media and its tag links are unchanged by that request.
C37_NonOKLeavesPostUnchanged ==
    (rpc.method = "UpdatePost" /\ rpc.stage = "answered" /\ rpc.status # "OK")
        => PostState(db, rpc.id) = PostState(rpc.pre, rpc.id)

\* C37 amended: if the UpdatePost RPC returns a non-OK status because
\* postService.UpdatePost returned an error, the stored post, its media and
\* its tag links are unchanged by that request; a non-OK status that comes
\* from the GetPostByID after the update leaves the update committed.
C37_UpdateErrorLeavesPostUnchanged ==
    (rpc.method = "UpdatePost" /\ rpc.stage = "answered" /\ rpc.status # "OK")
        => IF rpc.err # OK
           THEN PostState(db, rpc.id) = PostState(rpc.pre, rpc.id)
           ELSE /\ rpc.geterr # OK
                /\ rpc.id \in touched
                /\ GetByID(db, rpc.id).updated > GetByID(rpc.pre, rpc.id).updated

\* C37 witness: an UpdatePost RPC of the author with a new title, a tag and a
\* media item was answered Internal after a statement of the update failed
\* in the transaction that had already written; the post is as before.
C37_Witness ==
    \E p \in Writers :
        /\ rpc.method = "UpdatePost" /\ rpc.stage = "answered"
        /\ rpc.status = "Internal" /\ rpc.err = ErrDatabaseQuery
        /\ rpc.req.title = "t2" /\ rpc.req.media # <<>> /\ rpc.req.tags # <<>>
        /\ rpc.req.user = 1 /\ rpc.id = 1
        /\ hist[p].rollbacks = 1 /\ hist[p].faulted
        /\ PostState(db, 1) = PostState(rpc.pre, 1)

\* the RPC that was answered last supplied a new title and nothing else
TitleOnly ==
    /\ rpc.method = "UpdatePost" /\ rpc.stage = "answered"
    /\ rpc.req.title # "" /\ rpc.req.content = ""
    /\ rpc.req.tags = <<>> /\ rpc.req.media = <<>>

\* C38: an UpdatePost RPC that supplies only a new title (empty content, no
\* tags, no media) changes only the post's title and updated_at: its content,
\* media, tag links, id, author_id and created_at are the same after the call
\* as before.
C38_TitleOnlyUpdate ==
    TitleOnly =>
        LET before == PostState(rpc.pre, rpc.id)
            after == PostState(db, rpc.id)
        IN  /\ after.media = before.media
            /\ after.links = before.links
            /\ (before.post = NoPost) = (after.post = NoPost)
            /\ before.post # NoPost =>
                  /\ after.post.id = before.post.id
                  /\ after.post.author = before.post.author
                  /\ after.post.created = before.post.created
                  /\ after.post.content = before.post.content
                  /\ after.post.title \in {before.post.title, rpc.req.title}
                  /\ db.posts \ {after.post} = rpc.pre.posts \ {before.post}

\* C38 witness: the author's UpdatePost RPC with title t2 and nothing else
\* was answered OK with the refreshed post: title t2, a later updated_at, the
\* content (none), the media item and the tag as before.
C38_Witness ==
    /\ TitleOnly /\ rpc.status = "OK" /\ rpc.id = 1 /\ rpc.req.user = 1
    /\ GetByID(rpc.pre, 1).title = "t1" /\ GetByID(db, 1).title = "t2"
    /\ GetByID(db, 1).updated > GetByID(rpc.pre, 1).updated
    /\ GetByID(db, 1).content = NULL
    /\ rpc.out.post = GetByID(db, 1)
    /\ Len(rpc.out.media) = 1 /\ Len(rpc.out.tags) = 1

\* C39: the decorator's ListPosts returns the same posts in the same order
\* and the same total as the inner service; the only field it may change is
\* Author, and any substituted Author has an id equal to the post's author_id.
C39_ListOnlyAuthorChanged ==
    /\ [](\A p \in Readers :
             dec[p].op = "list" /\ dec[p].ret.err = OK =>
                /\ Len(dec[p].list) = Len(dec[p].orig)
                /\ \A i \in DOMAIN dec[p].orig :
                      /\ [dec[p].list[i] EXCEPT !.author = dec[p].orig[i].author]
                            = dec[p].orig[i]
                      /\ dec[p].list[i].author # dec[p].orig[i].author
                            => dec[p].list[i].author.id = dec[p].list[i].post.author)
    /\ [][\A p \in Readers :
             dec[p].op = "list" /\ dec[p].stage = "authors"
                => /\ dec'[p].op = "list"
                   /\ dec'[p].total = dec[p].total
                   /\ dec'[p].orig = dec[p].orig]_vars

\* C39 witness: ListPosts of the decorator has returned three posts of two
\* authors; the posts of author 1 carry the cached revision of user 1, the
\* post of author 2 the user of the inner service, and the total is 3.
C39_Witness ==
    \E p \in Readers :
        /\ dec[p].op = "list" /\ dec[p].stage = "done" /\ dec[p].ret.err = OK
        /\ Len(dec[p].list) = 3 /\ dec[p].total = 3
        /\ \A i \in DOMAIN dec[p].list :
              dec[p].list[i].author =
                 IF dec[p].list[i].post.author = 1 THEN [id |-> 1, rev |-> 1]
                 ELSE ListedUser(2)

=============================================================================
